---- MODULE Spec2Model ----
(***************************************************************************)
(* State-machine model of the CANBus session of src/src/ace_can.cpp:       *)
(* construction (open), Send, On (subscribe), Close, destruction and the   *)
(* receive worker thread, against a backend whose calls may succeed or     *)
(* fail.  The JavaScript thread runs one CANBus method at a time; the      *)
(* receive worker of each session runs in parallel with it.                *)
(***************************************************************************)
EXTENDS Integers, Sequences, FiniteSets, TLC

(* ------------------------------ bounds --------------------------------- *)
NumSessions == 2
MaxFrames == 2
MaxFaults == 1
MaxSends == 1
MaxSubscribes == 2

Sessions == 1..NumSessions

\* arguments of the constructor that the model enumerates: for each bus
\* type a channel that resolves and ones that do not, with a bitrate the
\* bus type supports and one that neither supports
CtorInputs ==
    {[bustype |-> "busmust", channel |-> c, bitrate |-> b] :
         c \in {-1, 0, 1}, b \in {500000, 12345}}
    \cup {[bustype |-> "pcan", channel |-> c, bitrate |-> b] :
              c \in {0, 1}, b \in {500000, 12345}}
    \cup {[bustype |-> "usb", channel |-> 0, bitrate |-> 500000]}
\* the bitrates MapPcanBaudrate has a case for
PcanBitrates == {1000000, 800000, 500000, 250000, 125000, 100000, 95000,
                 83333, 50000, 47619, 33333, 20000, 10000, 5000}
\* arguments of the constructor when the mappers are exercised: every pcan
\* bitrate with a case and values without one; channels below, in, between
\* and above the two ranges ResolvePcanChannelHandle accepts, up to the
\* largest int; busmust bitrates that are and are not multiples of 1000, on
\* both sides of what 16 bits hold in kbit/s
MapperInputs ==
    {[bustype |-> "pcan", channel |-> 1, bitrate |-> b] :
         b \in PcanBitrates \cup {-500000, 0, 1000, 12345, 83000, 250001, 2000000}}
    \cup {[bustype |-> "pcan", channel |-> c, bitrate |-> 500000] :
              c \in (-1..33) \cup {81, 65535, 65536, 65617, 2147483647}}
    \cup {[bustype |-> "busmust", channel |-> 0, bitrate |-> b] :
              b \in {-1000, 0, 999, 1000, 12345, 500000, 1000000, 65535000,
                     65536000, 65537000, 2147483000}}
    \cup {[bustype |-> "busmust", channel |-> c, bitrate |-> 500000] :
              c \in {1, 2, 3, 200}}
\* inputs of Send: (id, payload)
SendIds == {291}
SendPayloads == {<<1, 2, 3>>}
\* channel lists BM_Enumerate may report: a sequence of capability words
EnumLists == {<< >>, <<2>>, <<1, 4>>}

\* timeouts handed to Send as its second argument: block, do not wait, wait
SendTimeouts == {-1, 0, 250}
\* a payload of n bytes 1, 2, ..., n
Bytes(n) == [i \in 1..n |-> i]
\* messages handed to Send when the codec is exercised: ids on both sides of
\* 0x7FF up to 0x1FFFFFFF, payloads on both sides of 8, 15 and 64 bytes
CodecMessages ==
    {[id |-> p[1], data |-> Bytes(p[2]), timeout |-> 0] :
         p \in {<<0, 0>>, <<2047, 8>>, <<2048, 1>>, <<536870911, 8>>,
                <<291, 10>>, <<291, 16>>, <<2048, 65>>}}

(* -------------------------- program constants -------------------------- *)
PCAN_NONEBUS == 0
PCAN_USBBUS1 == 81
PCAN_MESSAGE_STANDARD == 0
PCAN_MESSAGE_EXTENDED == 2
BM_CAN_CAP == 2
BM_CAN_FD_CAP == 4
BM_ERROR_QRCVEMPTY == 32
PCAN_ERROR_QRCVEMPTY == 32

Min(a, b) == IF a <= b THEN a ELSE b

RECURSIVE BitAnd(_, _)
BitAnd(a, b) ==
    IF a = 0 \/ b = 0 THEN 0
    ELSE (a % 2) * (b % 2) + 2 * BitAnd(a \div 2, b \div 2)

Take(seq, n) == SubSeq(seq, 1, Min(Len(seq), n))

\* a zero-initialised array of n bytes with seq copied to its front
Pad(seq, n) == [i \in 1..n |-> IF i <= Len(seq) THEN seq[i] ELSE 0]

(* --------------------------- pure functions ---------------------------- *)
\* a mapping that gives every bitrate it knows the code of 500 kbit/s
MapPcanBaudrate_OneCode(bitrate) ==
    IF bitrate \in {1000000, 800000, 500000, 250000, 125000, 100000, 95000,
                    83333, 50000, 47619, 33333, 20000, 10000, 5000}
    THEN 28 ELSE 0

\* a mapping whose default case falls back to 500 kbit/s
MapPcanBaudrate_Lenient(bitrate) == IF bitrate = 1000000 THEN 20 ELSE 28

\* MapPcanBaudrate: the BTR0/BTR1 code of a supported bitrate, 0 otherwise
MapPcanBaudrate(bitrate) ==
    CASE bitrate = 1000000 -> 20
      [] bitrate = 800000 -> 22
      [] bitrate = 500000 -> 28
      [] bitrate = 250000 -> 284
      [] bitrate = 125000 -> 796
      [] bitrate = 100000 -> 17199
      [] bitrate = 95000 -> 49998
      [] bitrate = 83333 -> 34091
      [] bitrate = 50000 -> 18223
      [] bitrate = 47619 -> 5140
      [] bitrate = 33333 -> 35631
      [] bitrate = 20000 -> 21295
      [] bitrate = 10000 -> 26415
      [] bitrate = 5000 -> 32639
      [] OTHER -> 0

\* ResolvePcanChannelHandle: TPCANHandle is a 16-bit WORD
ResolvePcanChannelHandle(channel) ==
    IF channel >= 32 THEN channel % 65536
    ELSE IF channel >= 1 /\ channel <= 16 THEN (PCAN_USBBUS1 + (channel - 1)) % 65536
    ELSE PCAN_NONEBUS

\* BuildBusmustBitrate: [ok, nbitrate, nsamplepos, dsamplepos]; nbitrate is uint16_t
BuildBusmustBitrate(bitrate) ==
    IF bitrate <= 0 \/ (bitrate % 1000) # 0
    THEN [ok |-> FALSE, nbitrate |-> 0, nsamplepos |-> 0, dsamplepos |-> 0]
    ELSE LET nb == (bitrate \div 1000) % 65536
         IN  [ok |-> nb # 0, nbitrate |-> nb, nsamplepos |-> 75, dsamplepos |-> 75]

\* std::hex << std::uppercase: the digits of n, most significant first
HexDigit(d) == <<"0", "1", "2", "3", "4", "5", "6", "7",
                 "8", "9", "A", "B", "C", "D", "E", "F">>[d + 1]

RECURSIVE Hex(_)
Hex(n) == IF n < 16 THEN <<HexDigit(n)>> ELSE Hex(n \div 16) \o <<HexDigit(n % 16)>>

\* BusmustStatusToString: answer is what BM_GetErrorText left in the buffer;
\* a string is the sequence of its pieces, the empty string the empty sequence
BusmustStatusToString(status, answer) ==
    IF answer.text # << >> THEN answer.text
    ELSE <<"BM error 0x">> \o Hex(status)

\* PcanStatusToString: answer is the status CAN_GetErrorText returned and
\* what it left in the buffer
PcanStatusToString(status, answer) ==
    IF answer.status = "ok" THEN answer.text
    ELSE <<"PCAN error 0x">> \o Hex(status)

\* a capability test that lets every channel pass
BusmustSupportsCan_Any(cap) == cap >= 0

BusmustSupportsCan(cap) == BitAnd(cap, BM_CAN_CAP + BM_CAN_FD_CAP) # 0

\* the enumeration loop: four attempts with capacities 16, 32, 64, 128
EnumerationFits(n) == \E attempt \in 0..3 : n <= 16 * (2 ^ attempt)

\* an encoder that writes every id into the standard field
EncodeBusmust_StandardOnly(id, data) ==
    LET dlc == Min(Len(data), 64)
    IN  [SID |-> id % 2048, EID |-> 0, IDE |-> 0, DLC |-> dlc % 16,
         RTR |-> 0, FDF |-> 0, BRS |-> 0, ESI |-> 0,
         payload |-> Pad(Take(data, dlc), 64)]

\* Send, busmust branch: the BM_CanMessageTypeDef that is written
EncodeBusmust(id, data) ==
    LET dlc == Min(Len(data), 64)
    IN  IF id <= 2047
        THEN [SID |-> id % 2048, EID |-> 0, IDE |-> 0, DLC |-> dlc % 16,
              RTR |-> 0, FDF |-> 0, BRS |-> 0, ESI |-> 0,
              payload |-> Pad(Take(data, dlc), 64)]
        ELSE [SID |-> (id \div 262144) % 2048, EID |-> id % 262144, IDE |-> 1,
              DLC |-> dlc % 16,
              RTR |-> 0, FDF |-> 0, BRS |-> 0, ESI |-> 0,
              payload |-> Pad(Take(data, dlc), 64)]

\* an encoder that records the length of the buffer as it is
EncodePcan_NoClamp(id, data) ==
    [ID |-> id,
     MSGTYPE |-> IF id > 2047 THEN PCAN_MESSAGE_EXTENDED ELSE PCAN_MESSAGE_STANDARD,
     LEN |-> Len(data) % 256, DATA |-> Pad(Take(data, 8), 8)]

\* an encoder that marks every frame extended
EncodePcan_AlwaysExtended(id, data) ==
    LET dlc == Min(Len(data), 8)
    IN  [ID |-> id, MSGTYPE |-> PCAN_MESSAGE_EXTENDED,
         LEN |-> dlc % 256, DATA |-> Pad(Take(data, dlc), 8)]

\* Send, pcan branch: the TPCANMsg that is written
EncodePcan(id, data) ==
    LET dlc == Min(Len(data), 8)
    IN  [ID |-> id,
         MSGTYPE |-> IF id > 2047 THEN PCAN_MESSAGE_EXTENDED ELSE PCAN_MESSAGE_STANDARD,
         LEN |-> dlc % 256, DATA |-> Pad(Take(data, dlc), 8)]

\* a decoder that reads the standard field whatever the IDE bit says
DecodeBusmust_StandardOnly(msg) ==
    [kind |-> "frame", id |-> msg.SID, data |-> Take(msg.payload, Min(msg.DLC, 64))]

\* receive worker, busmust branch: the message object built from a native frame
DecodeBusmust(msg) ==
    LET extended == msg.IDE # 0
        canid == IF extended THEN msg.SID * 262144 + msg.EID ELSE msg.SID
        dlc == Min(msg.DLC, 64)
    IN  [kind |-> "frame", id |-> canid, data |-> Take(msg.payload, dlc)]

\* a decoder that hands out the native id of a standard frame unmasked
DecodePcan_NoMask(msg) ==
    [kind |-> "frame", id |-> msg.ID, data |-> Take(msg.DATA, Min(msg.LEN, 8))]

\* receive worker, pcan branch
DecodePcan(msg) ==
    LET extended == BitAnd(msg.MSGTYPE, PCAN_MESSAGE_EXTENDED) # 0
        canid == IF extended THEN msg.ID ELSE msg.ID % 2048
        dlc == Min(msg.LEN, 8)
    IN  [kind |-> "frame", id |-> canid, data |-> Take(msg.DATA, dlc)]

(* ------------------------------- state --------------------------------- *)
VARIABLES
    life,                    \* "unborn", "alive" (constructor has run), "destroyed"
    bustype_, channel_, bitrate_,
    handle_,                 \* BM_ChannelHandle, 0 = nullptr
    notification_handle_,    \* BM_NotificationHandle, 0 = nullptr
    pcan_handle_,            \* TPCANHandle, PCAN_NONEBUS = none
    pcan_event_fd_,          \* receive-event descriptor, -1 = none
    is_open_,
    busmust_registered_,
    recv_running_,
    tsfn_message_, tsfn_error_, tsfn_close_,   \* 0 = empty, else the callback
    wpc,                     \* recv_thread_: "none" (not joinable), "loop",
                             \* "wait", "drain", "read", "exited"
    g_busmust_instance_count,
    caller,                  \* what the JavaScript thread is blocked in
    bk_open,                 \* backend side: the session's channel is open
    rx,                      \* backend side: frames waiting to be read
    arrived,                 \* frames the backends have produced so far
    faults,                  \* failures injected into the worker's calls
    calls,                   \* per session: backend calls made so far
    bm_log,                  \* BM_Init / BM_UnInit calls in order
    writes,                  \* native frames handed to the backend write
    rx_read,                 \* native frames returned by successful reads
    events,                  \* calls queued on the sinks, in order
    result,                  \* what the latest method call threw, "ok" if nothing
    polled,                  \* the session has made a read or wait call
    framesub,                \* a frame sink has been registered at some time
    dropped,                 \* frames read whose sink call did not return napi_ok
    sent,                    \* arguments of the Send calls that reached the backend
                             \* write, and the status the write returned
    echo,                    \* pairs <<n, k>>: the n-th frame the backend returned
                             \* to the session is its k-th written frame
    open_args,               \* arguments of the session's backend open call
    enumerated,              \* what BM_Enumerate answered to the constructor, until
                             \* a later method call returns
    lookup,                  \* what the backends' error text lookup answers
    subs, sends              \* On / Send calls made so far

sessVars == <<bustype_, channel_, bitrate_, handle_, notification_handle_,
              pcan_handle_, pcan_event_fd_, is_open_, busmust_registered_>>
sinkVars == <<tsfn_message_, tsfn_error_, tsfn_close_>>
bkVars == <<bk_open, rx, arrived, faults>>
logVars == <<calls, bm_log, writes, rx_read, events, result, polled, framesub,
            dropped, sent, echo, open_args, enumerated, lookup, subs, sends>>
vars == <<life, sessVars, sinkVars, recv_running_, wpc, g_busmust_instance_count,
          caller, bkVars, logVars>>

Idle == [op |-> "idle", s |-> 0]
NoCalls == [open |-> 0, opened |-> 0, close |-> 0, inc |-> 0, dec |-> 0]
NoOpenCall == [call |-> "none"]
NoEnumeration == [status |-> "none", n |-> 0, caps |-> << >>]
\* a lookup that succeeds and fills the buffer with a text
LookupText == [status |-> "ok", text |-> <<"text of the status">>]
\* what a text lookup may answer: it succeeds or fails, and leaves a text or
\* nothing in the buffer
LookupAnswers ==
    {[status |-> st, text |-> t] :
         st \in {"ok", "fail"}, t \in {<< >>, <<"text of the status">>}}

InitObjects ==
    /\ life = [s \in Sessions |-> "unborn"]
    /\ bustype_ = [s \in Sessions |-> ""]
    /\ channel_ = [s \in Sessions |-> 0]
    /\ bitrate_ = [s \in Sessions |-> 0]
    /\ handle_ = [s \in Sessions |-> 0]
    /\ notification_handle_ = [s \in Sessions |-> 0]
    /\ pcan_handle_ = [s \in Sessions |-> PCAN_NONEBUS]
    /\ pcan_event_fd_ = [s \in Sessions |-> -1]
    /\ is_open_ = [s \in Sessions |-> FALSE]
    /\ busmust_registered_ = [s \in Sessions |-> FALSE]
    /\ recv_running_ = [s \in Sessions |-> FALSE]
    /\ tsfn_message_ = [s \in Sessions |-> 0]
    /\ tsfn_error_ = [s \in Sessions |-> 0]
    /\ tsfn_close_ = [s \in Sessions |-> 0]
    /\ wpc = [s \in Sessions |-> "none"]
    /\ g_busmust_instance_count = 0
    /\ caller = Idle
    /\ bk_open = [s \in Sessions |-> FALSE]
    /\ rx = [s \in Sessions |-> << >>]
    /\ arrived = 0
    /\ faults = 0
    /\ calls = [s \in Sessions |-> NoCalls]
    /\ bm_log = << >>
    /\ writes = [s \in Sessions |-> << >>]
    /\ rx_read = [s \in Sessions |-> << >>]
    /\ events = [s \in Sessions |-> << >>]
    /\ result = "ok"
    /\ polled = [s \in Sessions |-> FALSE]
    /\ framesub = [s \in Sessions |-> FALSE]
    /\ dropped = [s \in Sessions |-> 0]
    /\ sent = [s \in Sessions |-> << >>]
    /\ echo = [s \in Sessions |-> {}]
    /\ open_args = [s \in Sessions |-> NoOpenCall]
    /\ enumerated = NoEnumeration
    /\ subs = 0
    /\ sends = 0

Init == InitObjects /\ lookup = LookupText

\* the same objects on backends whose text lookup answers in any of the ways
InitTranslate == InitObjects /\ lookup \in LookupAnswers

(* ----------------------------- constructor ----------------------------- *)
\* what the backend may answer to the calls of one busmust constructor:
\* every call succeeds, or one of them fails; BM_Enumerate reports a channel
\* list, a failure, or more channels than the largest buffer the loop offers
EnumOk(l) == [status |-> "ok", n |-> Len(l), caps |-> l]

BusmustAnswers ==
    {[init |-> TRUE, en |-> EnumOk(l), open |-> o, notif |-> TRUE] :
         l \in EnumLists, o \in {"ok", "fail", "null"}}
    \cup {[init |-> TRUE, en |-> EnumOk(l), open |-> "ok", notif |-> FALSE] :
              l \in EnumLists}
    \cup {[init |-> FALSE, en |-> EnumOk(<<2>>), open |-> "ok", notif |-> TRUE],
          [init |-> TRUE, en |-> [status |-> "fail", n |-> 0, caps |-> << >>],
           open |-> "ok", notif |-> TRUE],
          [init |-> TRUE, en |-> [status |-> "ok", n |-> 200, caps |-> << >>],
           open |-> "ok", notif |-> TRUE]}

\* and to the calls of one pcan constructor: CAN_Initialize succeeds or not,
\* the receive event is available or not
PcanAnswers ==
    {[init |-> TRUE, event |-> TRUE], [init |-> TRUE, event |-> FALSE],
     [init |-> FALSE, event |-> FALSE]}

\* an unregistering that forgets the decrement
ReleaseCount_Leak(count, log) == [count |-> count, log |-> log]

\* an unregistering that tears down one session too early
ReleaseCount_Early(count, log) ==
    [count |-> count - 1,
     log |-> IF count <= 2 THEN Append(log, "uninit") ELSE log]

\* fetch_sub(1) == 1 -> BM_UnInit: the count and the log after unregistering
ReleaseCount(count, log) ==
    [count |-> count - 1,
     log |-> IF count = 1 THEN Append(log, "uninit") ELSE log]

\* a cleanup that closes the handle but keeps the pointer
cleanup_and_throw_KeepsHandle(o, message) ==
    LET closed == IF o.handle # 0
                  THEN [o EXCEPT !.close = o.close + 1, !.bk = FALSE]
                  ELSE o
        rel == ReleaseCount(closed.count, closed.log)
        unreg == IF closed.registered
                 THEN [closed EXCEPT !.count = rel.count, !.log = rel.log,
                                     !.dec = closed.dec + 1, !.registered = FALSE]
                 ELSE closed
    IN  [unreg EXCEPT !.msg = message]

\* the lambda cleanup_and_throw, applied to an outcome record o
cleanup_and_throw(o, message) ==
    LET closed == IF o.handle # 0
                  THEN [o EXCEPT !.handle = 0, !.close = o.close + 1, !.bk = FALSE]
                  ELSE o
        rel == ReleaseCount(closed.count, closed.log)
        unreg == IF closed.registered
                 THEN [closed EXCEPT !.count = rel.count, !.log = rel.log,
                                     !.dec = closed.dec + 1, !.registered = FALSE]
                 ELSE closed
    IN  [unreg EXCEPT !.msg = message]

\* the busmust branch of the constructor from BuildBusmustBitrate on; o2 is
\* the outcome record of a session registered with the init count
BusmustAfterInit(s, o2, channel, bitrate, en, openRes, notifOk) ==
    LET config == BuildBusmustBitrate(bitrate)
        o2e == [o2 EXCEPT !.en = en]
        o3 == [o2e EXCEPT !.open = 1,
                         !.args = [call |-> "BM_OpenEx", index |-> channel,
                                   mode |-> 0, tres |-> 120,
                                   nbitrate |-> config.nbitrate,
                                   nsamplepos |-> config.nsamplepos,
                                   dsamplepos |-> config.dsamplepos]]
        o4 == [o3 EXCEPT !.handle = s, !.opened = 1, !.bk = TRUE]
    IN  IF ~config.ok
        THEN cleanup_and_throw(o2, "Unsupported Busmust bitrate (must be multiple of 1 kbps)")
        ELSE IF en.status # "ok"
        THEN cleanup_and_throw(o2e, "BM_Enumerate failed")
        ELSE IF ~EnumerationFits(en.n)
        THEN cleanup_and_throw(o2e, "BM_Enumerate ran out of buffer space")
        ELSE IF en.n = 0
        THEN cleanup_and_throw(o2e, "No Busmust channels detected")
        ELSE IF channel >= en.n
        THEN cleanup_and_throw(o2e, "Busmust channel index out of range")
        ELSE IF ~BusmustSupportsCan(en.caps[channel + 1])
        THEN cleanup_and_throw(o2e, "Selected Busmust channel does not support CAN")
        ELSE IF openRes # "ok"
        THEN cleanup_and_throw(o3, "BM_OpenEx failed")
        ELSE IF ~notifOk
        THEN cleanup_and_throw(o4, "BM_GetNotification failed")
        ELSE [o4 EXCEPT !.notif = s, !.isopen = TRUE]

\* the outcome record of a constructor that has made no call yet
NoOutcome(count, log) ==
    [msg |-> "ok", handle |-> 0, notif |-> 0, registered |-> FALSE,
     isopen |-> FALSE, count |-> count, log |-> log, inc |-> 0, dec |-> 0,
     open |-> 0, opened |-> 0, close |-> 0, bk |-> FALSE,
     args |-> NoOpenCall, en |-> NoEnumeration]

\* the busmust branch of the constructor; count and log are the process-wide
\* init count and the BM_Init/BM_UnInit calls so far, the rest are the
\* backend's answers
BusmustCtor(s, count, log, channel, bitrate, initOk, en, openRes, notifOk) ==
    LET o0 == NoOutcome(count, log)
        o1 == [o0 EXCEPT !.count = count + 1, !.inc = 1]
        o2 == [o1 EXCEPT !.registered = TRUE,
                         !.log = IF count = 0 THEN Append(log, "init") ELSE log]
    IN  IF channel < 0 THEN [o0 EXCEPT !.msg = "Busmust channel must be >= 0"]
        ELSE IF count = 0 /\ ~initOk
        THEN [o1 EXCEPT !.count = count, !.dec = 1, !.msg = "BM_Init failed",
                        !.log = Append(log, "init_failed")]
        ELSE BusmustAfterInit(s, o2, channel, bitrate, en, openRes, notifOk)

\* the pcan branch of the constructor
PcanCtor(s, channel, bitrate, initOk, eventOk) ==
    LET resolved == ResolvePcanChannelHandle(channel)
        baud == MapPcanBaudrate(bitrate)
        o0 == [msg |-> "ok", pcan |-> PCAN_NONEBUS, fd |-> -1, isopen |-> FALSE,
               open |-> 0, opened |-> 0, bk |-> FALSE, args |-> NoOpenCall]
        o1 == [o0 EXCEPT !.open = 1,
                         !.args = [call |-> "CAN_Initialize", handle |-> resolved,
                                   baud |-> baud]]
    IN  IF resolved = PCAN_NONEBUS THEN [o0 EXCEPT !.msg = "Invalid PCAN channel"]
        ELSE IF baud = 0 THEN [o0 EXCEPT !.msg = "Unsupported PCAN bitrate"]
        ELSE IF ~initOk THEN [o1 EXCEPT !.msg = "CAN_Initialize failed"]
        ELSE [o1 EXCEPT !.pcan = resolved, !.opened = 1, !.bk = TRUE,
                        !.fd = IF eventOk THEN s + 2 ELSE -1, !.isopen = TRUE]

\* CANBus::CANBus, its arguments drawn from inputs
OpenWith(s, inputs) ==
    /\ caller = Idle
    /\ life[s] = "unborn"
    /\ \E args \in inputs :
      LET bustype == args.bustype
          channel == args.channel
          bitrate == args.bitrate
      IN
        /\ life' = [life EXCEPT ![s] = "alive"]
        /\ bustype_' = [bustype_ EXCEPT ![s] = bustype]
        /\ channel_' = [channel_ EXCEPT ![s] = channel]
        /\ bitrate_' = [bitrate_ EXCEPT ![s] = bitrate]
        /\ \/ /\ bustype = "busmust"
              /\ \E a \in BusmustAnswers :
                    LET o == BusmustCtor(s, g_busmust_instance_count, bm_log, channel,
                                         bitrate, a.init, a.en, a.open, a.notif)
                    IN  /\ handle_' = [handle_ EXCEPT ![s] = o.handle]
                        /\ notification_handle_' =
                               [notification_handle_ EXCEPT ![s] = o.notif]
                        /\ busmust_registered_' =
                               [busmust_registered_ EXCEPT ![s] = o.registered]
                        /\ is_open_' = [is_open_ EXCEPT ![s] = o.isopen]
                        /\ g_busmust_instance_count' = o.count
                        /\ bm_log' = o.log
                        /\ bk_open' = [bk_open EXCEPT ![s] = o.bk]
                        /\ calls' = [calls EXCEPT ![s] =
                               [open |-> o.open, opened |-> o.opened, close |-> o.close,
                                inc |-> o.inc, dec |-> o.dec]]
                        /\ open_args' = [open_args EXCEPT ![s] = o.args]
                        /\ enumerated' = o.en
                        /\ result' = o.msg
                        /\ UNCHANGED <<pcan_handle_, pcan_event_fd_>>
           \/ /\ bustype = "pcan"
              /\ \E a \in PcanAnswers :
                    LET o == PcanCtor(s, channel, bitrate, a.init, a.event)
                    IN  /\ pcan_handle_' = [pcan_handle_ EXCEPT ![s] = o.pcan]
                        /\ pcan_event_fd_' = [pcan_event_fd_ EXCEPT ![s] = o.fd]
                        /\ is_open_' = [is_open_ EXCEPT ![s] = o.isopen]
                        /\ bk_open' = [bk_open EXCEPT ![s] = o.bk]
                        /\ calls' = [calls EXCEPT ![s] =
                               [NoCalls EXCEPT !.open = o.open, !.opened = o.opened]]
                        /\ open_args' = [open_args EXCEPT ![s] = o.args]
                        /\ result' = o.msg
                        /\ enumerated' = NoEnumeration
                        /\ UNCHANGED <<handle_, notification_handle_, busmust_registered_,
                                       g_busmust_instance_count, bm_log>>
           \/ /\ bustype \notin {"busmust", "pcan"}
              /\ result' = "Unsupported bustype"
              /\ UNCHANGED <<handle_, notification_handle_, busmust_registered_,
                             is_open_, pcan_handle_, pcan_event_fd_,
                             g_busmust_instance_count, bm_log, bk_open, calls,
                             open_args>>
              /\ enumerated' = NoEnumeration
    /\ UNCHANGED <<sinkVars, recv_running_, wpc, caller, rx, arrived, faults,
                   writes, rx_read, events, polled, framesub, dropped, sent, echo,
                   lookup, subs, sends>>

\* CANBus::CANBus
Open(s) == OpenWith(s, CtorInputs)

(* -------------------------------- Send --------------------------------- *)
\* a queue that hands the newest call out first
Deliver_Front(queue, call) == <<call>> \o queue

\* ThreadSafeFunction::BlockingCall that returns napi_ok: the call is queued
\* behind the calls queued before it
Deliver(queue, call) == Append(queue, call)

\* an EmitError that never calls the sink
EmitError_Silent(s, code, message) == events[s]

\* an EmitError that loses the code
EmitError_NoCode(s, code, message) ==
    IF tsfn_error_[s] = 0 THEN events[s]
    ELSE Append(events[s], [kind |-> "error", code |-> 0, message |-> message])

\* EmitError: the events of session s after an error with this code and
\* message is pushed
EmitError(s, code, message) ==
    IF tsfn_error_[s] = 0 THEN events[s]
    ELSE Deliver(events[s], [kind |-> "error", code |-> code, message |-> message])

\* the translator of the session's bus type
StatusToString(bustype, status) ==
    IF bustype = "busmust" THEN BusmustStatusToString(status, lookup)
    ELSE PcanStatusToString(status, lookup)

\* status codes a failing backend write or read reports
FailureCodes == {64}

\* a Send that skips the test of is_open_
NotOpen_Never(s) == FALSE

\* if (!is_open_): the first test of Send
NotOpen(s) == ~is_open_[s]

\* CANBus::Send, its message drawn from messages
SendWith(s, messages) ==
    /\ caller = Idle
    /\ life[s] = "alive"
    /\ sends < MaxSends
    /\ sends' = sends + 1
    /\ \E m \in messages, status \in {0} \cup FailureCodes :
      LET id == m.id
          data == m.data
      IN
        /\ IF NotOpen(s)
           THEN /\ result' = "CANBus not open"
                /\ UNCHANGED <<writes, events>>
           ELSE IF bustype_[s] = "busmust"
           THEN IF handle_[s] = 0
                THEN /\ result' = "Busmust handle not open"
                     /\ UNCHANGED <<writes, events>>
                ELSE /\ writes' = [writes EXCEPT ![s] =
                            Append(@, [msg |-> EncodeBusmust(id, data), args |-> <<0, 100>>])]
                     /\ IF status # 0
                        THEN /\ events' = [events EXCEPT ![s] =
                                    EmitError(s, status,
                                              BusmustStatusToString(status, lookup))]
                             /\ result' = "BM_WriteCanMessage failed"
                        ELSE /\ result' = "ok"
                             /\ UNCHANGED events
           ELSE IF bustype_[s] = "pcan"
           THEN IF pcan_handle_[s] = PCAN_NONEBUS
                THEN /\ result' = "PCAN channel not open"
                     /\ UNCHANGED <<writes, events>>
                ELSE /\ writes' = [writes EXCEPT ![s] =
                            Append(@, [msg |-> EncodePcan(id, data), args |-> << >>])]
                     /\ IF status # 0
                        THEN /\ events' = [events EXCEPT ![s] =
                                    EmitError(s, status,
                                              PcanStatusToString(status, lookup))]
                             /\ result' = "CAN_Write failed"
                        ELSE /\ result' = "ok"
                             /\ UNCHANGED events
           ELSE /\ result' = "Unsupported bustype"
                /\ UNCHANGED <<writes, events>>
        /\ sent' = IF writes'[s] # writes[s]
                   THEN [sent EXCEPT ![s] = Append(@,
                            [id |-> id, data |-> data, timeout |-> m.timeout,
                             status |-> status,
                             thrown |-> IF status = 0 THEN << >>
                                        ELSE <<result', ": ">>
                                                 \o StatusToString(bustype_[s], status)])]
                   ELSE sent
    /\ UNCHANGED <<life, sessVars, sinkVars, recv_running_, wpc,
                   g_busmust_instance_count, caller, bkVars,
                   calls, bm_log, rx_read, polled, framesub, dropped, echo,
                   open_args, lookup, subs>>
    /\ enumerated' = NoEnumeration

\* CANBus::Send
Send(s) ==
    SendWith(s, {[id |-> i, data |-> d, timeout |-> 0] :
                     i \in SendIds, d \in SendPayloads})

(* --------------------------------- On ---------------------------------- *)
\* a StartReceiveThread that does not test is_open_
StartReceiveThread_Unguarded(s) ==
    IF recv_running_[s] \/ wpc[s] # "none"
    THEN UNCHANGED <<recv_running_, wpc, caller>>
    ELSE /\ recv_running_' = [recv_running_ EXCEPT ![s] = TRUE]
         /\ wpc' = [wpc EXCEPT ![s] = "loop"]
         /\ UNCHANGED caller

\* CANBus::StartReceiveThread: assigning to a joinable std::thread terminates
\* the process
StartReceiveThread(s) ==
    IF recv_running_[s] \/ ~is_open_[s]
    THEN UNCHANGED <<recv_running_, wpc, caller>>
    ELSE /\ recv_running_' = [recv_running_ EXCEPT ![s] = TRUE]
         /\ IF wpc[s] = "none"
            THEN /\ wpc' = [wpc EXCEPT ![s] = "loop"]
                 /\ UNCHANGED caller
            ELSE /\ caller' = [op |-> "terminated", s |-> s]
                 /\ UNCHANGED wpc

\* a test that never finds the slot taken
AlreadyListening_Never(slot) == slot < 0

\* every branch of On starting the receive thread
StartsWorker_Any(event) == event \in {"message", "error", "close"}

\* if (tsfn_message_) / if (tsfn_error_) / if (tsfn_close_): the slot is taken
AlreadyListening(slot) == slot # 0

\* only the "message" branch of On calls StartReceiveThread
StartsWorker(event) == event = "message"

Slot(s, event) ==
    CASE event = "message" -> tsfn_message_[s]
      [] event = "error" -> tsfn_error_[s]
      [] event = "close" -> tsfn_close_[s]

AlreadyListeningMessage(event) ==
    CASE event = "message" -> "Already listening for messages"
      [] event = "error" -> "Already listening for errors"
      [] event = "close" -> "Already listening for close"

\* CANBus::On for one event name; the callback handed in is identified by
\* the number of the call
OnEvent(s, event) ==
    LET cb == subs + 1
    IN  IF event \notin {"message", "error", "close"}
        THEN /\ result' = "Only 'message', 'error', 'close' events supported"
             /\ UNCHANGED <<sinkVars, recv_running_, wpc, caller, framesub>>
        ELSE IF AlreadyListening(Slot(s, event))
        THEN /\ result' = AlreadyListeningMessage(event)
             /\ UNCHANGED <<sinkVars, recv_running_, wpc, caller, framesub>>
        ELSE /\ tsfn_message_' = IF event = "message"
                                 THEN [tsfn_message_ EXCEPT ![s] = cb] ELSE tsfn_message_
             /\ tsfn_error_' = IF event = "error"
                               THEN [tsfn_error_ EXCEPT ![s] = cb] ELSE tsfn_error_
             /\ tsfn_close_' = IF event = "close"
                               THEN [tsfn_close_ EXCEPT ![s] = cb] ELSE tsfn_close_
             /\ framesub' = IF event = "message"
                            THEN [framesub EXCEPT ![s] = TRUE] ELSE framesub
             /\ IF StartsWorker(event)
                THEN StartReceiveThread(s)
                ELSE UNCHANGED <<recv_running_, wpc, caller>>
             /\ result' = "ok"

\* CANBus::On
On(s) ==
    /\ caller = Idle
    /\ life[s] = "alive"
    /\ subs < MaxSubscribes
    /\ subs' = subs + 1
    /\ \E event \in {"message", "error", "close", "frame"} : OnEvent(s, event)
    /\ UNCHANGED <<life, sessVars, g_busmust_instance_count, bkVars,
                   calls, bm_log, writes, rx_read, events, polled, sends, dropped,
                   sent, echo, open_args, lookup>>
    /\ enumerated' = NoEnumeration

(* ------------------------- Close and destructor ------------------------ *)
\* a join that returns at once, whatever the worker is doing
JoinReady_NoWait(s) == wpc[s] \in {"none", "loop", "wait", "drain", "read", "exited"}

\* recv_thread_.join() returns once the worker has left its loop
JoinReady(s) == wpc[s] \in {"none", "exited"}

\* a StopReceiveThread that queues the close callback and keeps the frame
\* and error sinks
StopReceiveThreadTail_KeepsSinks(s) ==
    /\ wpc' = [wpc EXCEPT ![s] = IF @ = "exited" THEN "none" ELSE @]
    /\ tsfn_close_' = [tsfn_close_ EXCEPT ![s] = 0]
    /\ events' = [events EXCEPT ![s] =
           IF tsfn_close_[s] # 0 THEN Deliver(@, [kind |-> "close"]) ELSE @]
    /\ UNCHANGED <<tsfn_message_, tsfn_error_>>

\* CANBus::StopReceiveThread after the join: release the sinks, queue the
\* close callback
StopReceiveThreadTail(s) ==
    /\ wpc' = [wpc EXCEPT ![s] = IF @ = "exited" THEN "none" ELSE @]
    /\ tsfn_message_' = [tsfn_message_ EXCEPT ![s] = 0]
    /\ tsfn_error_' = [tsfn_error_ EXCEPT ![s] = 0]
    /\ tsfn_close_' = [tsfn_close_ EXCEPT ![s] = 0]
    /\ events' = [events EXCEPT ![s] =
           IF tsfn_close_[s] # 0 THEN Deliver(@, [kind |-> "close"]) ELSE @]

\* the release of the native resources, as written in Close and again in
\* the destructor
ReleaseNative(s) ==
    /\ is_open_' = [is_open_ EXCEPT ![s] = FALSE]
    /\ IF bustype_[s] = "busmust"
       THEN /\ handle_' = [handle_ EXCEPT ![s] = 0]
            /\ notification_handle_' = [notification_handle_ EXCEPT ![s] = 0]
            /\ bk_open' = [bk_open EXCEPT ![s] = IF handle_[s] # 0 THEN FALSE ELSE @]
            /\ busmust_registered_' = [busmust_registered_ EXCEPT ![s] = FALSE]
            /\ LET rel == ReleaseCount(g_busmust_instance_count, bm_log)
               IN  IF busmust_registered_[s]
                   THEN /\ g_busmust_instance_count' = rel.count
                        /\ bm_log' = rel.log
                   ELSE UNCHANGED <<g_busmust_instance_count, bm_log>>
            /\ calls' = [calls EXCEPT
                   ![s].close = IF handle_[s] # 0 THEN @ + 1 ELSE @,
                   ![s].dec = IF busmust_registered_[s] THEN @ + 1 ELSE @]
            /\ UNCHANGED <<pcan_handle_, pcan_event_fd_>>
       ELSE IF bustype_[s] = "pcan"
       THEN /\ pcan_event_fd_' = [pcan_event_fd_ EXCEPT ![s] = -1]
            /\ pcan_handle_' = [pcan_handle_ EXCEPT ![s] = PCAN_NONEBUS]
            /\ bk_open' = [bk_open EXCEPT ![s] =
                   IF pcan_handle_[s] # PCAN_NONEBUS THEN FALSE ELSE @]
            /\ calls' = [calls EXCEPT
                   ![s].close = IF pcan_handle_[s] # PCAN_NONEBUS THEN @ + 1 ELSE @]
            /\ UNCHANGED <<handle_, notification_handle_, busmust_registered_,
                           g_busmust_instance_count, bm_log>>
       ELSE UNCHANGED <<handle_, notification_handle_, busmust_registered_,
                        g_busmust_instance_count, bm_log, pcan_handle_,
                        pcan_event_fd_, bk_open, calls>>

NativeVars == <<handle_, notification_handle_, busmust_registered_,
                g_busmust_instance_count, bm_log, pcan_handle_, pcan_event_fd_,
                bk_open, calls, is_open_>>

\* CANBus::Close with no thread to join: the whole handler
Close(s) ==
    /\ caller = Idle
    /\ life[s] = "alive"
    /\ wpc[s] = "none"
    /\ recv_running_' = [recv_running_ EXCEPT ![s] = FALSE]
    /\ StopReceiveThreadTail(s)
    /\ IF ~is_open_[s] THEN UNCHANGED NativeVars ELSE ReleaseNative(s)
    /\ result' = "ok"
    /\ UNCHANGED <<life, bustype_, channel_, bitrate_, caller,
                   rx, arrived, faults, writes, rx_read, polled, framesub, dropped,
                   sent, echo, open_args, lookup, subs, sends>>
    /\ enumerated' = NoEnumeration

\* CANBus::Close up to the join: StopReceiveThread clears recv_running_ and
\* blocks in recv_thread_.join()
CloseBegin(s) ==
    /\ caller = Idle
    /\ life[s] = "alive"
    /\ wpc[s] # "none"
    /\ recv_running_' = [recv_running_ EXCEPT ![s] = FALSE]
    /\ caller' = [op |-> "close", s |-> s]
    /\ UNCHANGED <<life, sessVars, sinkVars, wpc, g_busmust_instance_count,
                   bkVars, logVars>>

\* CANBus::Close from the join on
CloseFinish(s) ==
    /\ caller = [op |-> "close", s |-> s]
    /\ JoinReady(s)
    /\ StopReceiveThreadTail(s)
    /\ IF ~is_open_[s] THEN UNCHANGED NativeVars ELSE ReleaseNative(s)
    /\ result' = "ok"
    /\ caller' = Idle
    /\ UNCHANGED <<life, bustype_, channel_, bitrate_, recv_running_,
                   rx, arrived, faults, writes, rx_read, polled, framesub, dropped,
                   sent, echo, open_args, lookup, subs, sends>>
    /\ enumerated' = NoEnumeration

\* the object's memory is gone after the destructor: its plain fields read
\* as in a fresh object
Freed(s) ==
    /\ life' = [life EXCEPT ![s] = "destroyed"]
    /\ bustype_' = [bustype_ EXCEPT ![s] = ""]
    /\ channel_' = [channel_ EXCEPT ![s] = 0]
    /\ bitrate_' = [bitrate_ EXCEPT ![s] = 0]
    /\ open_args' = [open_args EXCEPT ![s] = NoOpenCall]
    /\ enumerated' = NoEnumeration
    /\ result' = "ok"

\* CANBus::~CANBus with no thread to join: the whole destructor
Destroy(s) ==
    /\ caller = Idle
    /\ life[s] = "alive"
    /\ wpc[s] = "none"
    /\ recv_running_' = [recv_running_ EXCEPT ![s] = FALSE]
    /\ StopReceiveThreadTail(s)
    /\ ReleaseNative(s)
    /\ Freed(s)
    /\ UNCHANGED <<caller, rx, arrived, faults, writes, rx_read, polled, framesub,
                   dropped, sent, echo, lookup, subs, sends>>

\* CANBus::~CANBus up to the join
DestroyBegin(s) ==
    /\ caller = Idle
    /\ life[s] = "alive"
    /\ wpc[s] # "none"
    /\ recv_running_' = [recv_running_ EXCEPT ![s] = FALSE]
    /\ caller' = [op |-> "destroy", s |-> s]
    /\ UNCHANGED <<life, sessVars, sinkVars, wpc, g_busmust_instance_count,
                   bkVars, logVars>>

\* CANBus::~CANBus from the join on
DestroyFinish(s) ==
    /\ caller = [op |-> "destroy", s |-> s]
    /\ JoinReady(s)
    /\ StopReceiveThreadTail(s)
    /\ ReleaseNative(s)
    /\ Freed(s)
    /\ caller' = Idle
    /\ UNCHANGED <<recv_running_, rx, arrived, faults, writes, rx_read, polled,
                   framesub, dropped, sent, echo, lookup, subs, sends>>

(* --------------------------- receive worker ---------------------------- *)
\* the n-th frame the backend of this bus type produces: odd ones carry a
\* standard id, even ones an extended id
NativeFrame(bustype, n) ==
    IF bustype = "busmust"
    THEN [SID |-> n, EID |-> IF n % 2 = 0 THEN 4096 + n ELSE 0, IDE |-> (n + 1) % 2,
          DLC |-> 1, RTR |-> 0, FDF |-> 0, BRS |-> 0, ESI |-> 0,
          payload |-> Pad(<<n>>, 64)]
    ELSE [ID |-> IF n % 2 = 0 THEN 4096 + n ELSE 256 + n,
          MSGTYPE |-> IF n % 2 = 0 THEN PCAN_MESSAGE_EXTENDED ELSE PCAN_MESSAGE_STANDARD,
          LEN |-> 1, DATA |-> Pad(<<n>>, 8)]

\* the backend receives a frame from the bus
Arrive(s) ==
    /\ caller.op # "terminated"
    /\ bk_open[s]
    /\ arrived < MaxFrames
    /\ arrived' = arrived + 1
    /\ rx' = [rx EXCEPT ![s] = Append(@, NativeFrame(bustype_[s], arrived + 1))]
    /\ UNCHANGED <<life, sessVars, sinkVars, recv_running_, wpc,
                   g_busmust_instance_count, caller, bk_open, faults, logVars>>

\* frames a bus delivers when the codec is exercised: standard and extended
\* frames whose id value is on either side of 0x7FF, id bits outside the
\* standard field in a standard frame, length codes up to the field's width
CodecNativeFrames(bustype) ==
    IF bustype = "busmust"
    THEN {[SID |-> f[1], EID |-> f[2], IDE |-> f[3], DLC |-> f[4],
           RTR |-> 0, FDF |-> 0, BRS |-> 0, ESI |-> 0, payload |-> Bytes(64)] :
              f \in {<<5, 0, 0, 2>>, <<0, 5, 1, 15>>, <<3, 7, 0, 8>>,
                     <<2047, 262143, 1, 0>>}}
    ELSE {[ID |-> f[1], MSGTYPE |-> f[2], LEN |-> f[3], DATA |-> Bytes(8)] :
              f \in {<<291, PCAN_MESSAGE_STANDARD, 3>>, <<5, PCAN_MESSAGE_EXTENDED, 8>>,
                     <<131071, 1, 12>>, <<536870911, PCAN_MESSAGE_EXTENDED, 0>>}}

\* the backend receives one of these frames from the bus
ArriveNative(s) ==
    /\ caller.op # "terminated"
    /\ bk_open[s]
    /\ arrived < MaxFrames
    /\ arrived' = arrived + 1
    /\ \E f \in CodecNativeFrames(bustype_[s]) : rx' = [rx EXCEPT ![s] = Append(@, f)]
    /\ UNCHANGED <<life, sessVars, sinkVars, recv_running_, wpc,
                   g_busmust_instance_count, caller, bk_open, faults, logVars>>

\* a backend in loopback mode receives a frame that was written to it
Loopback(s) ==
    /\ caller.op # "terminated"
    /\ bk_open[s]
    /\ arrived < MaxFrames
    /\ arrived' = arrived + 1
    /\ \E k \in DOMAIN writes[s] :
          /\ sent[s][k].status = 0
          /\ rx' = [rx EXCEPT ![s] = Append(@, writes[s][k].msg)]
          /\ echo' = [echo EXCEPT ![s] =
                 @ \cup {<<Len(rx_read[s]) + Len(rx[s]) + 1, k>>}]
    /\ UNCHANGED <<life, sessVars, sinkVars, recv_running_, wpc,
                   g_busmust_instance_count, caller, bk_open, faults,
                   calls, bm_log, writes, rx_read, events, result, polled, framesub,
                   dropped, sent, open_args, enumerated, lookup, subs, sends>>

WorkerFrame == <<life, sessVars, sinkVars, g_busmust_instance_count, caller,
                 bk_open, arrived, calls, bm_log, writes, result, framesub, sent,
                 echo, open_args, enumerated, lookup, subs, sends>>

\* a loop condition that never sees the stop
StopRequested_Never(s) == FALSE

\* while (recv_running_) is left: the flag is clear
StopRequested(s) == ~recv_running_[s]

\* top of the outer loop: test recv_running_, then is_open_ and the handle,
\* then begin the wait for readiness
WorkerLoop(s) ==
    /\ caller.op # "terminated"
    /\ wpc[s] = "loop"
    /\ IF StopRequested(s)
       THEN /\ wpc' = [wpc EXCEPT ![s] = "exited"]
            /\ UNCHANGED polled
       ELSE IF ~is_open_[s]
       THEN UNCHANGED <<wpc, polled>>
       ELSE IF bustype_[s] = "busmust"
       THEN IF handle_[s] = 0
            THEN UNCHANGED <<wpc, polled>>
            ELSE IF notification_handle_[s] # 0
            THEN /\ wpc' = [wpc EXCEPT ![s] = "wait"]
                 /\ polled' = [polled EXCEPT ![s] = TRUE]
            ELSE /\ wpc' = [wpc EXCEPT ![s] = "drain"]
                 /\ UNCHANGED polled
       ELSE IF bustype_[s] = "pcan"
       THEN IF pcan_handle_[s] = PCAN_NONEBUS
            THEN UNCHANGED <<wpc, polled>>
            ELSE IF pcan_event_fd_[s] >= 0
            THEN /\ wpc' = [wpc EXCEPT ![s] = "wait"]
                 /\ polled' = [polled EXCEPT ![s] = TRUE]
            ELSE /\ wpc' = [wpc EXCEPT ![s] = "drain"]
                 /\ UNCHANGED polled
       ELSE UNCHANGED <<wpc, polled>>
    /\ UNCHANGED <<WorkerFrame, recv_running_, rx, faults, rx_read, events, dropped>>

\* BM_WaitForNotifications / poll returns with one of these outcomes
WorkerWaitEndWith(s, outcomes) ==
    /\ caller.op # "terminated"
    /\ wpc[s] = "wait"
    /\ \E outcome \in outcomes :
        IF bustype_[s] = "busmust"
        THEN \* waitResult < 0 -> continue, anything else drains
             /\ outcome \in {"ready", "failed"}
             /\ outcome = "failed" => faults < MaxFaults
             /\ wpc' = [wpc EXCEPT ![s] = IF outcome = "failed" THEN "loop" ELSE "drain"]
             /\ faults' = IF outcome = "failed" THEN faults + 1 ELSE faults
             /\ UNCHANGED events
        ELSE /\ outcome = "failed" => faults < MaxFaults
             /\ wpc' = [wpc EXCEPT ![s] = IF outcome = "ready" THEN "drain" ELSE "loop"]
             /\ faults' = IF outcome = "failed" THEN faults + 1 ELSE faults
             /\ events' = [events EXCEPT ![s] =
                    IF outcome = "failed"
                    THEN EmitError(s, 5, <<"PCAN receive event poll failed">>)
                    ELSE @]
    /\ UNCHANGED <<WorkerFrame, recv_running_, rx, rx_read, polled, dropped>>

\* BM_WaitForNotifications / poll returns
WorkerWaitEnd(s) == WorkerWaitEndWith(s, {"ready", "timeout", "failed"})

\* the same on a backend that signals readiness whenever a frame waits in
\* its receive queue
WorkerWaitSignalled(s) ==
    WorkerWaitEndWith(s, IF rx[s] # << >> THEN {"ready"}
                         ELSE {"ready", "timeout", "failed"})

\* top of the drain loop: test recv_running_, then begin the read
WorkerDrain(s) ==
    /\ caller.op # "terminated"
    /\ wpc[s] = "drain"
    /\ IF StopRequested(s)
       THEN /\ wpc' = [wpc EXCEPT ![s] = "loop"]
            /\ UNCHANGED polled
       ELSE /\ wpc' = [wpc EXCEPT ![s] = "read"]
            /\ polled' = [polled EXCEPT ![s] = TRUE]
    /\ UNCHANGED <<WorkerFrame, recv_running_, rx, faults, rx_read, events, dropped>>

Decode(bustype, msg) ==
    IF bustype = "busmust" THEN DecodeBusmust(msg) ELSE DecodePcan(msg)

QueueEmptyStatus(bustype) ==
    IF bustype = "busmust" THEN BM_ERROR_QRCVEMPTY ELSE PCAN_ERROR_QRCVEMPTY

\* a status test that takes no status for the empty queue
IsQueueEmpty_Never(bustype, status) == status < 0

\* else if (status == BM_ERROR_QRCVEMPTY) / (status == PCAN_ERROR_QRCVEMPTY)
IsQueueEmpty(bustype, status) == status = QueueEmptyStatus(bustype)

\* what WorkerReadEnd leaves alone in every branch
ReadFrame == <<life, bustype_, channel_, bitrate_, handle_, notification_handle_,
               pcan_handle_, pcan_event_fd_, busmust_registered_, sinkVars,
               g_busmust_instance_count, caller, bk_open, arrived, calls, bm_log,
               writes, result, framesub, sent, echo, open_args, enumerated, lookup,
               subs, sends>>

\* a drain that ends after one frame
AfterFrame_Break(s) == "loop"

\* a frame was read and handled: the drain loop goes back to its test of
\* recv_running_ and reads again
AfterFrame(s) == "drain"

\* a worker that gives the session up when the frame sink cannot be called
SelfStop_Closes(flags) == [running |-> FALSE, open |-> FALSE]

\* recv_running_ = false; break;  the flags of the session after the frame
\* sink could not be called
SelfStop(flags) == [flags EXCEPT !.running = FALSE]

\* BM_ReadCanMessage / CAN_Read returns and its status is handled; the
\* backend answers 0 with the oldest waiting frame, its queue-empty status
\* when none waits, or a failure code
WorkerReadEnd(s) ==
    /\ caller.op # "terminated"
    /\ wpc[s] = "read"
    /\ \E status \in {0, QueueEmptyStatus(bustype_[s])} \cup FailureCodes :
        /\ status = 0 => rx[s] # << >>
        /\ status = QueueEmptyStatus(bustype_[s]) => rx[s] = << >>
        /\ status \in FailureCodes => faults < MaxFaults
        /\ IF status = 0
           THEN /\ rx' = [rx EXCEPT ![s] = Tail(@)]
                /\ rx_read' = [rx_read EXCEPT ![s] = Append(@, Head(rx[s]))]
                /\ IF tsfn_message_[s] = 0
                   THEN /\ wpc' = [wpc EXCEPT ![s] = AfterFrame(s)]
                        /\ UNCHANGED <<events, recv_running_, is_open_, faults, dropped>>
                   ELSE \/ \* BlockingCall returns napi_ok
                           /\ events' = [events EXCEPT ![s] =
                                  Deliver(@, Decode(bustype_[s], Head(rx[s])))]
                           /\ wpc' = [wpc EXCEPT ![s] = AfterFrame(s)]
                           /\ UNCHANGED <<recv_running_, is_open_, faults, dropped>>
                        \/ \* BlockingCall does not return napi_ok
                           /\ faults < MaxFaults
                           /\ faults' = faults + 1
                           /\ LET after == SelfStop([running |-> recv_running_[s],
                                                     open |-> is_open_[s]])
                              IN  /\ recv_running_' =
                                         [recv_running_ EXCEPT ![s] = after.running]
                                  /\ is_open_' = [is_open_ EXCEPT ![s] = after.open]
                           /\ dropped' = [dropped EXCEPT ![s] = @ + 1]
                           /\ wpc' = [wpc EXCEPT ![s] = "loop"]
                           /\ UNCHANGED events
           ELSE IF IsQueueEmpty(bustype_[s], status)
           THEN /\ wpc' = [wpc EXCEPT ![s] = "loop"]
                /\ UNCHANGED <<rx, rx_read, events, recv_running_, is_open_, faults,
                               dropped>>
           ELSE /\ faults' = IF status \in FailureCodes THEN faults + 1 ELSE faults
                /\ events' = [events EXCEPT ![s] =
                       EmitError(s, status, StatusToString(bustype_[s], status))]
                /\ wpc' = [wpc EXCEPT ![s] = "loop"]
                /\ UNCHANGED <<rx, rx_read, recv_running_, is_open_, dropped>>
    /\ UNCHANGED <<ReadFrame, polled>>

(* ---------------------------- specification ---------------------------- *)
\* the session whose methods and receive worker are followed step by step
Followed == {1}

\* one CANBus object, every method and the worker interleaved
Next ==
    \E s \in Followed :
        \/ Open(s)
        \/ Send(s)
        \/ On(s)
        \/ Close(s)
        \/ CloseBegin(s)
        \/ CloseFinish(s)
        \/ Destroy(s)
        \/ DestroyBegin(s)
        \/ DestroyFinish(s)
        \/ Arrive(s)
        \/ WorkerLoop(s)
        \/ WorkerWaitEnd(s)
        \/ WorkerDrain(s)
        \/ WorkerReadEnd(s)

Spec == Init /\ [][Next]_vars

\* several CANBus objects of one process that are constructed, closed and
\* destroyed in any order
NextLifecycle ==
    \E s \in Sessions :
        \/ Open(s)
        \/ Close(s)
        \/ Destroy(s)

SpecLifecycle == Init /\ [][NextLifecycle]_vars

\* Send with messages over the whole range of ids and lengths
SendCodec(s) == SendWith(s, CodecMessages)

\* one CANBus object whose backend loops written frames back, with its
\* receive worker
NextCodec ==
    \E s \in Followed :
        \/ Open(s)
        \/ On(s)
        \/ SendCodec(s)
        \/ Loopback(s)
        \/ WorkerLoop(s)
        \/ WorkerWaitEnd(s)
        \/ WorkerDrain(s)
        \/ WorkerReadEnd(s)

SpecCodec == Init /\ [][NextCodec]_vars

\* Send with a second argument
SendTimed(s) ==
    SendWith(s, {[id |-> i, data |-> d, timeout |-> t] :
                     i \in SendIds, d \in SendPayloads, t \in SendTimeouts})

\* one CANBus object that is constructed, subscribed to, sent on with a
\* timeout and closed
NextSend ==
    \E s \in Followed :
        \/ Open(s)
        \/ On(s)
        \/ SendTimed(s)
        \/ Close(s)

SpecSend == Init /\ [][NextSend]_vars

\* one CANBus object, every method and the worker interleaved, on backends
\* whose text lookup answers in any of the ways
SpecTranslate == InitTranslate /\ [][Next]_vars

\* the constructor with arguments over the whole range of channels and bitrates
OpenMapper(s) == OpenWith(s, MapperInputs)

\* one CANBus object that is constructed with such arguments, closed and
\* destroyed
NextMapper ==
    \E s \in Followed :
        \/ OpenMapper(s)
        \/ Close(s)
        \/ Destroy(s)

SpecMapper == Init /\ [][NextMapper]_vars

\* one CANBus object whose backend delivers frames of every shape from the
\* bus, with its receive worker
NextDecode ==
    \E s \in Followed :
        \/ Open(s)
        \/ On(s)
        \/ ArriveNative(s)
        \/ WorkerLoop(s)
        \/ WorkerWaitEnd(s)
        \/ WorkerDrain(s)
        \/ WorkerReadEnd(s)

SpecDecode == Init /\ [][NextDecode]_vars

\* one CANBus object as in Spec, the receive thread scheduled fairly and
\* every backend wait and read returning, a join returning once the thread
\* has ended
SpecFair ==
    /\ Init
    /\ [][Next]_vars
    /\ \A s \in Followed :
           /\ WF_vars(WorkerLoop(s))
           /\ WF_vars(WorkerWaitEnd(s))
           /\ WF_vars(WorkerDrain(s))
           /\ WF_vars(WorkerReadEnd(s))
           /\ WF_vars(CloseFinish(s))

\* one CANBus object on a backend that signals readiness whenever its queue
\* is not empty
NextDrain ==
    \E s \in Followed :
        \/ Open(s)
        \/ Send(s)
        \/ On(s)
        \/ Close(s)
        \/ CloseBegin(s)
        \/ CloseFinish(s)
        \/ Destroy(s)
        \/ DestroyBegin(s)
        \/ DestroyFinish(s)
        \/ Arrive(s)
        \/ WorkerLoop(s)
        \/ WorkerWaitSignalled(s)
        \/ WorkerDrain(s)
        \/ WorkerReadEnd(s)

\* the receive thread scheduled fairly on that backend, every wait and read
\* returning, a join returning once the thread has ended
SpecDrain ==
    /\ Init
    /\ [][NextDrain]_vars
    /\ \A s \in Followed :
           /\ WF_vars(WorkerLoop(s))
           /\ WF_vars(WorkerWaitSignalled(s))
           /\ WF_vars(WorkerDrain(s))
           /\ WF_vars(WorkerReadEnd(s))
           /\ WF_vars(CloseFinish(s))

(* ------------------ constructors on several threads ------------------- *)
\* the busmust constructor of session s up to fetch_add(1): the first one
\* goes on to call BM_Init, any other one is registered at once
CtorRegister(s) ==
    /\ life[s] = "unborn"
    /\ bustype_' = [bustype_ EXCEPT ![s] = "busmust"]
    /\ channel_' = [channel_ EXCEPT ![s] = 0]
    /\ bitrate_' = [bitrate_ EXCEPT ![s] = 500000]
    /\ g_busmust_instance_count' = g_busmust_instance_count + 1
    /\ calls' = [calls EXCEPT ![s].inc = 1]
    /\ IF g_busmust_instance_count = 0
       THEN /\ life' = [life EXCEPT ![s] = "initialising"]
            /\ bm_log' = Append(bm_log, "init_begin")
            /\ UNCHANGED busmust_registered_
       ELSE /\ life' = [life EXCEPT ![s] = "registered"]
            /\ busmust_registered_' = [busmust_registered_ EXCEPT ![s] = TRUE]
            /\ UNCHANGED bm_log
    /\ UNCHANGED <<handle_, notification_handle_, pcan_handle_, pcan_event_fd_,
                   is_open_, sinkVars, recv_running_, wpc, caller, bkVars,
                   writes, rx_read, events, result, polled, framesub, dropped, sent,
                   echo, open_args, enumerated, lookup, subs, sends>>

\* BM_Init returns to the constructor that called it
CtorInitEnd(s) ==
    /\ life[s] = "initialising"
    /\ \E initOk \in BOOLEAN :
          IF initOk
          THEN /\ bm_log' = Append(bm_log, "init")
               /\ busmust_registered_' = [busmust_registered_ EXCEPT ![s] = TRUE]
               /\ life' = [life EXCEPT ![s] = "registered"]
               /\ UNCHANGED <<g_busmust_instance_count, calls, result>>
          ELSE /\ bm_log' = Append(bm_log, "init_failed")
               /\ g_busmust_instance_count' = g_busmust_instance_count - 1
               /\ calls' = [calls EXCEPT ![s].dec = 1]
               /\ result' = "BM_Init failed"
               /\ life' = [life EXCEPT ![s] = "alive"]
               /\ UNCHANGED busmust_registered_
    /\ UNCHANGED <<bustype_, channel_, bitrate_, handle_, notification_handle_,
                   pcan_handle_, pcan_event_fd_, is_open_, sinkVars, recv_running_,
                   wpc, caller, bkVars, writes, rx_read, events, polled, framesub,
                   dropped, sent, echo, open_args, enumerated, lookup, subs, sends>>

\* the rest of the constructor of a registered session: BM_Enumerate,
\* BM_OpenEx, BM_GetNotification
CtorRest(s) ==
    /\ life[s] = "registered"
    /\ \E a \in BusmustAnswers :
          LET o2 == [NoOutcome(g_busmust_instance_count, Append(bm_log, "enumerate"))
                        EXCEPT !.registered = TRUE, !.inc = 1]
              o == BusmustAfterInit(s, o2, channel_[s], bitrate_[s],
                                    a.en, a.open, a.notif)
          IN  /\ handle_' = [handle_ EXCEPT ![s] = o.handle]
              /\ notification_handle_' = [notification_handle_ EXCEPT ![s] = o.notif]
              /\ busmust_registered_' = [busmust_registered_ EXCEPT ![s] = o.registered]
              /\ is_open_' = [is_open_ EXCEPT ![s] = o.isopen]
              /\ g_busmust_instance_count' = o.count
              /\ bm_log' = o.log
              /\ bk_open' = [bk_open EXCEPT ![s] = o.bk]
              /\ calls' = [calls EXCEPT ![s] =
                     [open |-> o.open, opened |-> o.opened, close |-> o.close,
                      inc |-> o.inc, dec |-> o.dec]]
              /\ open_args' = [open_args EXCEPT ![s] = o.args]
              /\ enumerated' = o.en
              /\ result' = o.msg
    /\ life' = [life EXCEPT ![s] = "alive"]
    /\ UNCHANGED <<bustype_, channel_, bitrate_, pcan_handle_, pcan_event_fd_,
                   sinkVars, recv_running_, wpc, caller, rx, arrived, faults,
                   writes, rx_read, events, polled, framesub, dropped, sent, echo,
                   lookup, subs, sends>>

\* busmust sessions constructed, closed and destroyed on threads of their
\* own, the steps of their constructors interleaved
NextInit ==
    \E s \in Sessions :
        \/ CtorRegister(s)
        \/ CtorInitEnd(s)
        \/ CtorRest(s)
        \/ Close(s)
        \/ Destroy(s)

SpecInit == Init /\ [][NextInit]_vars

(* ------------------------------- claims -------------------------------- *)
\* C1: whenever a wait or read call of a session's receive worker is in
\* flight, the backend has not been asked to close that session's handle:
\* Close and the destructor join the worker before BM_Close / CAN_Uninitialize.
C1_WorkerJoinedBeforeRelease ==
    \A s \in Sessions :
        wpc[s] \in {"wait", "read"} => (bk_open[s] /\ calls[s].close = 0)

\* a session whose worker has read frames and whose handle was then released
C1_Witness ==
    \E s \in Sessions :
        /\ calls[s].close = 1
        /\ polled[s]
        /\ rx_read[s] # << >>
        /\ wpc[s] = "none"

\* C2: a handle obtained by a successful backend open is closed at most once,
\* is held by the object exactly while it is not yet closed, and is closed
\* exactly once by the time the object is destroyed; the same for the
\* session's increment of the init count and its decrement.
C2_ReleasedExactlyOnce ==
    \A s \in Sessions :
        /\ calls[s].close <= calls[s].opened
        /\ calls[s].dec <= calls[s].inc
        /\ (handle_[s] # 0 \/ pcan_handle_[s] # PCAN_NONEBUS)
               <=> (calls[s].opened = calls[s].close + 1)
        /\ busmust_registered_[s] <=> (calls[s].inc = calls[s].dec + 1)
        /\ life[s] = "destroyed" =>
               /\ calls[s].close = calls[s].opened
               /\ calls[s].dec = calls[s].inc

\* an object that opened a channel, was closed and is destroyed, with one
\* close call and one decrement on record
C2_Witness ==
    \E s \in Sessions :
        /\ life[s] = "destroyed"
        /\ calls[s].opened = 1
        /\ calls[s].close = 1
        /\ calls[s].inc = 1
        /\ calls[s].dec = 1

OpenStep(s) == life[s] = "unborn" /\ life'[s] = "alive"

\* C3: Close on a session that is not open changes nothing: no backend call,
\* no change of the init count, no sink released, no event queued.
C3_CloseOfClosedIsNoop ==
    [][\A s \in Sessions :
          (~is_open_[s] /\ (Close(s) \/ CloseFinish(s)))
              => UNCHANGED <<sessVars, sinkVars, wpc, events, calls, bm_log,
                             g_busmust_instance_count, bk_open>>]_vars

\* the bitrates section 4.1 of the specification lists for each backend
C4_Supported(bustype, bitrate) ==
    IF bustype = "busmust" THEN bitrate > 0 /\ bitrate % 1000 = 0
    ELSE bitrate \in {1000000, 800000, 500000, 250000, 125000, 100000, 95000,
                      83333, 50000, 47619, 33333, 20000, 10000, 5000}

C4_UnsupportedBitrate ==
    {"Unsupported Busmust bitrate (must be multiple of 1 kbps)",
     "Unsupported PCAN bitrate"}

C4_BadBitrateOpen(s) ==
    /\ OpenStep(s)
    /\ bustype_'[s] \in {"busmust", "pcan"}
    /\ ~C4_Supported(bustype_'[s], bitrate_'[s])

C5_FailedOpen(s) == OpenStep(s) /\ result' # "ok"

C5_Unwound(s) ==
    /\ ~is_open_'[s]
    /\ handle_'[s] = 0
    /\ pcan_handle_'[s] = PCAN_NONEBUS
    /\ ~bk_open'[s]
    /\ calls'[s].close = calls'[s].opened
    /\ calls'[s].dec = calls'[s].inc
    /\ g_busmust_instance_count' = g_busmust_instance_count

\* C5 as stated: a failed constructor leaves no handle, has closed what it
\* opened, restores the init count, and BM_UnInit is called whenever the
\* count it incremented was zero before.
C5_FailedOpenUnwindsWithTeardown ==
    [][\A s \in Sessions :
          C5_FailedOpen(s) =>
              /\ C5_Unwound(s)
              /\ (calls'[s].inc = 1 /\ g_busmust_instance_count = 0)
                     => (/\ Len(bm_log') > Len(bm_log)
                         /\ bm_log'[Len(bm_log')] = "uninit")]_vars

\* C5 amended: a failed constructor leaves no handle, has closed what it
\* opened and restores the init count; BM_UnInit is called when the count it
\* incremented was zero before and BM_Init had succeeded, and not after a
\* failed BM_Init.
C5_FailedOpenUnwinds ==
    [][\A s \in Sessions :
          C5_FailedOpen(s) =>
              /\ C5_Unwound(s)
              /\ IF calls'[s].inc = 1 /\ g_busmust_instance_count = 0
                 THEN \/ bm_log' = bm_log \o <<"init", "uninit">>
                      \/ bm_log' = Append(bm_log, "init_failed")
                 ELSE bm_log' = bm_log]_vars

\* a constructor that opened the channel, failed to get the notification
\* handle and unwound: handle closed, count back at zero, backend torn down
C5_Witness ==
    \E s \in Sessions :
        /\ life[s] = "alive"
        /\ result = "BM_GetNotification failed"
        /\ calls[s] = [open |-> 1, opened |-> 1, close |-> 1, inc |-> 1, dec |-> 1]
        /\ g_busmust_instance_count = 0
        /\ bm_log = <<"init", "uninit">>

C6_Registered == {s \in Sessions : busmust_registered_[s]}

\* C6 as stated: the init count is the number of registered sessions and the
\* BM_Init and BM_UnInit calls alternate, starting with BM_Init.
C6_CallsAlternate ==
    /\ g_busmust_instance_count = Cardinality(C6_Registered)
    /\ g_busmust_instance_count >= 0
    /\ \A i \in DOMAIN bm_log :
          IF i % 2 = 1 THEN bm_log[i] \in {"init", "init_failed"}
          ELSE bm_log[i] = "uninit"

C6_Succeeded == SelectSeq(bm_log, LAMBDA e : e # "init_failed")

C6_CountState ==
    /\ g_busmust_instance_count = Cardinality(C6_Registered)
    /\ g_busmust_instance_count >= 0
    /\ \A i \in DOMAIN C6_Succeeded :
          C6_Succeeded[i] = IF i % 2 = 1 THEN "init" ELSE "uninit"
    /\ (g_busmust_instance_count > 0) <=> (Len(C6_Succeeded) % 2 = 1)

C6_CountStep ==
    /\ Len(bm_log') >= Len(bm_log)
    /\ Len(bm_log') > Len(bm_log) =>
          /\ bm_log'[Len(bm_log) + 1] \in {"init", "init_failed"}
                 => g_busmust_instance_count = 0
          /\ bm_log'[Len(bm_log')] = "uninit" => g_busmust_instance_count' = 0
          /\ bm_log'[Len(bm_log')] = "init" => g_busmust_instance_count' = 1

\* C6 amended: the init count is the number of registered sessions and never
\* negative; BM_Init is called only at count zero and BM_UnInit only when the
\* count returns to zero; the successful BM_Init calls and the BM_UnInit calls
\* alternate, starting with BM_Init, and a failed BM_Init is followed by no
\* BM_UnInit.
C6_InitCountPaired == []C6_CountState /\ [][C6_CountStep]_vars

\* two sessions registered on one backend initialisation
C6_Witness ==
    /\ g_busmust_instance_count = 2
    /\ Cardinality(C6_Registered) = 2
    /\ bm_log = <<"init">>

C7_AlreadySubscribed(event) ==
    CASE event = "message" -> "Already listening for messages"
      [] event = "error" -> "Already listening for errors"
      [] event = "close" -> "Already listening for close"

\* C7: an On call for an event whose sink is registered throws the already
\* listening error, leaves all three sinks as they are and starts no thread.
C7_SecondSubscribeRejected ==
    [][\A s \in Sessions : \A event \in {"message", "error", "close"} :
          (On(s) /\ OnEvent(s, event) /\ Slot(s, event) # 0) =>
              /\ result' = C7_AlreadySubscribed(event)
              /\ UNCHANGED <<sinkVars, wpc, recv_running_>>]_vars

\* the second On("message") was refused and the first callback is still the
\* registered one, served by the one worker
C7_Witness ==
    \E s \in Sessions :
        /\ result = "Already listening for messages"
        /\ tsfn_message_[s] = 1
        /\ subs = 2
        /\ wpc[s] # "none"

C8_FrameEvents(s) == SelectSeq(events[s], LAMBDA e : e.kind = "frame")
C8_ErrorEvents(s) == SelectSeq(events[s], LAMBDA e : e.kind = "error")
C8_DecodedReads(s) ==
    [i \in 1..Len(rx_read[s]) |-> Decode(bustype_[s], rx_read[s][i])]

\* C8 as stated: the frame events queued on the sink are the frames returned
\* by the successful reads, in the same order, none missing.
C8_AllReadsDelivered ==
    \A s \in Sessions :
        life[s] = "alive" => C8_FrameEvents(s) = C8_DecodedReads(s)

\* C8 amended: the frame events queued on the sink are, in the same order,
\* the frames returned by the successful reads whose sink call succeeded; a
\* frame whose sink call fails is dropped and stops the worker, so at most
\* the last frame read is missing; there are no more error events than
\* failed backend calls.
C8_ReadsDeliveredInOrder ==
    \A s \in Sessions :
        life[s] = "alive" =>
            /\ dropped[s] <= 1
            /\ dropped[s] = 1 => ~recv_running_[s]
            /\ C8_FrameEvents(s) =
                   SubSeq(C8_DecodedReads(s), 1, Len(rx_read[s]) - dropped[s])
            /\ Len(C8_ErrorEvents(s)) <= faults + sends

\* two frames read and queued in order, then the queue reported empty, and
\* no error event
C8_Witness ==
    \E s \in Sessions :
        /\ is_open_[s]
        /\ Len(rx_read[s]) = 2
        /\ Len(C8_FrameEvents(s)) = 2
        /\ rx[s] = << >>
        /\ wpc[s] = "loop"
        /\ faults = 0
        /\ C8_ErrorEvents(s) = << >>

C9_LegacyOpen(s, channel) ==
    /\ OpenStep(s)
    /\ bustype_'[s] = "pcan"
    /\ channel_'[s] = channel
    /\ bitrate_'[s] = 500000
    /\ calls'[s].open = calls'[s].opened

\* C9 as stated: the pcan constructor with channel 0 and 500000 bps, on a
\* backend that refuses nothing, leaves the session open.
C9_ChannelZeroOpens ==
    [][\A s \in Sessions : C9_LegacyOpen(s, 0) => is_open_'[s]]_vars

C9_Written ==
    [msg |-> [ID |-> 291, MSGTYPE |-> 0, LEN |-> 3, DATA |-> <<1, 2, 3, 0, 0, 0, 0, 0>>],
     args |-> << >>]

\* C9 amended: the pcan constructor with channel 1 and 500000 bps, on a
\* backend that refuses nothing, leaves the session open on the first USB
\* adapter, and a Send of id 0x123 with data 1, 2, 3 on it makes exactly one
\* backend write, of a standard-id frame with those 3 bytes.
C9_ChannelOneOpensAndSends ==
    [][\A s \in Sessions :
          /\ C9_LegacyOpen(s, 1) =>
                 (is_open_'[s] /\ calls'[s].opened = 1 /\ pcan_handle_'[s] = 81)
          /\ (Send(s) /\ is_open_[s] /\ bustype_[s] = "pcan") =>
                 writes'[s] = Append(writes[s], C9_Written)]_vars

\* an open pcan session on channel 1 after its one successful Send
C9_Witness ==
    \E s \in Sessions :
        /\ is_open_[s]
        /\ bustype_[s] = "pcan"
        /\ channel_[s] = 1
        /\ bitrate_[s] = 500000
        /\ result = "ok"
        /\ writes[s] = <<C9_Written>>

C10_NoWorkerYet(s) == ~polled[s] /\ wpc[s] = "none" /\ ~recv_running_[s]

C10_ThreadStart(s) ==
    (wpc[s] = "none" /\ wpc'[s] # "none") =>
        /\ is_open_[s]
        /\ tsfn_message_[s] = 0
        /\ tsfn_message_'[s] # 0

\* C10: as long as no frame sink has been registered the session has no
\* worker and has made no read or wait call, and a worker thread appears
\* only in the step that registers a frame sink on an open session.
C10_WorkerStartsOnFrameSubscription ==
    /\ [](\A s \in Sessions : ~framesub[s] => C10_NoWorkerYet(s))
    /\ [][\A s \in Sessions : C10_ThreadStart(s)]_vars

\* an open session with error and close sinks and frames waiting in the
\* backend, and still no worker
C10_Witness ==
    \E s \in Sessions :
        /\ is_open_[s]
        /\ tsfn_error_[s] # 0
        /\ tsfn_close_[s] # 0
        /\ ~framesub[s]
        /\ rx[s] # << >>
        /\ C10_NoWorkerYet(s)

\* C11: a Send on an object that is not open (its constructor failed, or it
\* was closed) throws "CANBus not open", hands no frame to the backend write
\* and queues no call on any sink.
C11_SendOnClosedRefused ==
    [][\A s \in Sessions :
          (Send(s) /\ ~is_open_[s]) =>
              /\ result' = "CANBus not open"
              /\ UNCHANGED <<writes, events, sinkVars, calls>>]_vars

\* a session that was opened and closed, then refused a Send, with an error
\* sink that was registered after the close and received nothing
C11_Witness ==
    \E s \in Sessions :
        /\ life[s] = "alive"
        /\ ~is_open_[s]
        /\ calls[s].close = 1
        /\ sends = 1
        /\ result = "CANBus not open"
        /\ writes[s] = << >>
        /\ tsfn_error_[s] # 0
        /\ events[s] = << >>

C12_Events == {"message", "error", "close"}

\* C12: an On call on an object that is not open throws "CANBus not open" and
\* registers no sink.
C12_SubscribeOnClosedRefused ==
    [][\A s \in Sessions : \A event \in C12_Events :
          (On(s) /\ OnEvent(s, event) /\ ~is_open_[s]) =>
              /\ result' = "CANBus not open"
              /\ UNCHANGED sinkVars]_vars

\* the sessions whose object exists, and the frames each has written
Alive == {s \in Sessions : life[s] = "alive"}
Written(s) == DOMAIN writes[s]

C13_PcanOtherFlags == 1 + 4 + 8 + 16

\* C13: every frame written for an id up to 0x1FFFFFFF is marked standard
\* when the id is at most 0x7FF and extended when it is larger, on both
\* backends, and its remote, FD, bitrate-switch and error-state flags are 0.
C13_FormatFollowsMagnitude ==
    \A s \in Alive : \A k \in Written(s) :
        LET id == sent[s][k].id
            w == writes[s][k].msg
        IN  id <= 536870911 =>
                IF bustype_[s] = "busmust"
                THEN /\ w.IDE = (IF id <= 2047 THEN 0 ELSE 1)
                     /\ w.RTR = 0 /\ w.FDF = 0 /\ w.BRS = 0 /\ w.ESI = 0
                ELSE /\ (BitAnd(w.MSGTYPE, PCAN_MESSAGE_EXTENDED) # 0) <=> (id > 2047)
                     /\ BitAnd(w.MSGTYPE, C13_PcanOtherFlags) = 0

\* a busmust session that wrote the largest 29-bit id as an extended frame
C13_Witness ==
    \E s \in Alive :
        /\ bustype_[s] = "busmust"
        /\ Len(sent[s]) = 1
        /\ sent[s][1].id = 536870911
        /\ writes[s][1].msg.IDE = 1
        /\ writes[s][1].msg.FDF = 0

\* C14: when a written frame whose id is at most 0x1FFFFFFF and whose payload
\* has at most 8 bytes comes back from the backend and is delivered to the
\* frame sink, the delivered message has the id and exactly the bytes that
\* were handed to Send.
C14_RoundTrip ==
    \A s \in Alive : \A p \in echo[s] :
        LET m == sent[s][p[2]]
        IN  (/\ p[1] <= Len(C8_FrameEvents(s))
             /\ m.id <= 536870911
             /\ Len(m.data) <= 8) =>
                /\ C8_FrameEvents(s)[p[1]].id = m.id
                /\ C8_FrameEvents(s)[p[1]].data = m.data

\* a busmust session that got its own extended frame of 8 bytes back
C14_Witness ==
    \E s \in Alive : \E p \in echo[s] :
        /\ bustype_[s] = "busmust"
        /\ p[1] <= Len(C8_FrameEvents(s))
        /\ sent[s][p[2]].id = 536870911
        /\ sent[s][p[2]].data = Bytes(8)
        /\ C8_FrameEvents(s)[p[1]].id = 536870911
        /\ C8_FrameEvents(s)[p[1]].data = Bytes(8)

C15_Clamped ==
    \A s \in Alive : \A k \in Written(s) :
        LET data == sent[s][k].data
            w == writes[s][k].msg
        IN  bustype_[s] = "pcan" =>
                /\ w.LEN = (IF Len(data) > 8 THEN 8 ELSE Len(data))
                /\ \A i \in 1..w.LEN : w.DATA[i] = data[i]

C15_SendStep(s) ==
    /\ sends' = sends + 1
    /\ is_open_[s]
    /\ bustype_[s] = "pcan"

\* C15: on pcan a Send is not refused for the length of its payload: the
\* frame is handed to CAN_Write whatever the length, and the call throws only
\* when CAN_Write itself reports a failure; the frame written has length 8
\* and the first 8 bytes when the payload is longer than 8 bytes, and the
\* payload's own length and bytes otherwise.
C15_LongPayloadTruncated ==
    /\ []C15_Clamped
    /\ [][\A s \in Sessions :
             C15_SendStep(s) =>
                 /\ Len(writes'[s]) = Len(writes[s]) + 1
                 /\ result' \in {"ok", "CAN_Write failed"}]_vars

\* a pcan session whose Send of 10 bytes returned normally, 8 bytes written
C15_Witness ==
    \E s \in Alive :
        /\ bustype_[s] = "pcan"
        /\ Len(sent[s]) = 1
        /\ sent[s][1].data = Bytes(10)
        /\ writes[s][1].msg.LEN = 8
        /\ writes[s][1].msg.DATA = Bytes(8)
        /\ result = "ok"

\* C16: on busmust the length field of every written frame holds the payload
\* length clamped to 64, and the frame carries that many payload bytes.
C16_LengthFieldHoldsClampedLength ==
    \A s \in Alive : \A k \in Written(s) :
        LET data == sent[s][k].data
            w == writes[s][k].msg
            n == IF Len(data) > 64 THEN 64 ELSE Len(data)
        IN  bustype_[s] = "busmust" =>
                /\ w.DLC = n
                /\ \A i \in 1..n : w.payload[i] = data[i]

C17_Expected(bustype, m) ==
    IF bustype = "busmust"
    THEN [id |-> IF m.IDE # 0 THEN m.SID * 262144 + m.EID ELSE m.SID,
          len |-> IF m.DLC > 64 THEN 64 ELSE m.DLC,
          bytes |-> m.payload]
    ELSE [id |-> IF (m.MSGTYPE \div 2) % 2 = 1 THEN m.ID ELSE m.ID % 2048,
          len |-> IF m.LEN > 8 THEN 8 ELSE m.LEN,
          bytes |-> m.DATA]

C18_Open(s) ==
    /\ OpenStep(s)
    /\ bustype_'[s] = "busmust"
    /\ channel_'[s] >= 0
    /\ result' # "BM_Init failed"

C18_Rejected == "Unsupported Busmust bitrate (must be multiple of 1 kbps)"

\* C18: a busmust constructor call that gets as far as the bitrate accepts it
\* exactly when it is a positive multiple of 1000, and then hands BM_OpenEx
\* the bitrate divided by 1000 with both sample points at 75; every other
\* bitrate is refused as unsupported.
C18_KbpsExact ==
    [][\A s \in Sessions :
          C18_Open(s) =>
              IF bitrate_'[s] > 0 /\ bitrate_'[s] % 1000 = 0
              THEN /\ result' # C18_Rejected
                   /\ open_args'[s].call = "BM_OpenEx" =>
                          /\ open_args'[s].nbitrate = bitrate_'[s] \div 1000
                          /\ open_args'[s].nsamplepos = 75
                          /\ open_args'[s].dsamplepos = 75
              ELSE result' = C18_Rejected]_vars

C19_Open(s) ==
    /\ OpenStep(s)
    /\ bustype_'[s] = "pcan"
    /\ result' # "Invalid PCAN channel"

C19_Accepted == {1000000, 800000, 500000, 250000, 125000, 100000, 95000,
                 83333, 50000, 47619, 33333, 20000, 10000, 5000}

\* C19: a pcan constructor call with a valid channel calls CAN_Initialize
\* exactly when the bitrate is one of the 14 listed values, with a code that
\* no other listed value is mapped to; with any other bitrate it throws
\* "Unsupported PCAN bitrate" and calls nothing.
C19_FourteenBitrates ==
    [][\A s \in Sessions :
          C19_Open(s) =>
              IF bitrate_'[s] \in C19_Accepted
              THEN /\ result' # "Unsupported PCAN bitrate"
                   /\ open_args'[s].call = "CAN_Initialize"
                   /\ open_args'[s].baud # 0
                   /\ \A b \in C19_Accepted \ {bitrate_'[s]} :
                          MapPcanBaudrate(b) # open_args'[s].baud
              ELSE /\ result' = "Unsupported PCAN bitrate"
                   /\ open_args'[s].call = "none"
                   /\ calls'[s].open = 0]_vars

\* a pcan session opened at 83333 bit/s
C19_Witness ==
    \E s \in Alive :
        /\ bustype_[s] = "pcan"
        /\ bitrate_[s] = 83333
        /\ is_open_[s]
        /\ open_args[s].call = "CAN_Initialize"
        /\ open_args[s].baud = 34091

\* C20: a pcan constructor call with channel 1..16 uses the handle of the
\* channel-th USB adapter, with a channel of 0x20 or more it uses the channel
\* itself as the handle, and with any other channel it throws "Invalid PCAN
\* channel" before any backend call.
C20_ChannelResolution ==
    [][\A s \in Sessions :
          (OpenStep(s) /\ bustype_'[s] = "pcan") =>
              LET c == channel_'[s]
              IN  IF c \in 1..16 \/ c >= 32
                  THEN /\ result' # "Invalid PCAN channel"
                       /\ open_args'[s].call = "CAN_Initialize" =>
                              open_args'[s].handle = (IF c >= 32 THEN c ELSE 80 + c)
                  ELSE /\ result' = "Invalid PCAN channel"
                       /\ open_args'[s].call = "none"
                       /\ calls'[s].open = 0]_vars

C21_Resolution(s) ==
    /\ OpenStep(s)
    /\ bustype_'[s] = "busmust"
    /\ enumerated'.status = "ok"
    /\ enumerated'.n <= 128

C21_Unwound(s) ==
    /\ ~is_open_'[s]
    /\ calls'[s].open = 0
    /\ open_args'[s].call = "none"
    /\ g_busmust_instance_count' = g_busmust_instance_count

C21_NoCan(s) ==
    /\ channel_'[s] < enumerated'.n
    /\ LET cap == enumerated'.caps[channel_'[s] + 1]
       IN  (cap \div 2) % 2 = 0 /\ (cap \div 4) % 2 = 0

\* C21 as stated: when BM_Enumerate reported n channels, the constructor
\* throws the index out of range error for every channel >= n, n = 0
\* included, and the capability error when the channel has neither
\* capability bit, without calling BM_OpenEx and with the init count restored.
C21_OutOfRangeFromZero ==
    [][\A s \in Sessions :
          C21_Resolution(s) =>
              /\ channel_'[s] >= enumerated'.n =>
                     (result' = "Busmust channel index out of range" /\ C21_Unwound(s))
              /\ C21_NoCan(s) =>
                     (/\ result' = "Selected Busmust channel does not support CAN"
                      /\ C21_Unwound(s))]_vars

\* C21 amended: as stated for n > 0; when BM_Enumerate reported no channel at
\* all the constructor throws "No Busmust channels detected" for every index.
C21_ChannelResolution ==
    [][\A s \in Sessions :
          C21_Resolution(s) =>
              /\ channel_'[s] >= enumerated'.n =>
                     /\ result' = IF enumerated'.n = 0
                                  THEN "No Busmust channels detected"
                                  ELSE "Busmust channel index out of range"
                     /\ C21_Unwound(s)
              /\ C21_NoCan(s) =>
                     (/\ result' = "Selected Busmust channel does not support CAN"
                      /\ C21_Unwound(s))]_vars

\* a constructor refused for an index past the two channels enumerated
C21_Witness ==
    \E s \in Alive :
        /\ bustype_[s] = "busmust"
        /\ channel_[s] = 3
        /\ enumerated.n = 2
        /\ result = "Busmust channel index out of range"
        /\ calls[s] = [open |-> 0, opened |-> 0, close |-> 0, inc |-> 1, dec |-> 1]
        /\ g_busmust_instance_count = 0

\* C22: the timeout handed to BM_WriteCanMessage is the timeout the caller
\* gave to Send.
C22_TimeoutPassedThrough ==
    \A s \in Alive : \A k \in Written(s) :
        bustype_[s] = "busmust" => writes[s][k].args[2] = sent[s][k].timeout

\* the generic numeric rendering of a status of this bus type
GenericRendering(bustype, status) ==
    (IF bustype = "busmust" THEN <<"BM error 0x">> ELSE <<"PCAN error 0x">>)
        \o Hex(status)

\* the error events of s whose text came out of the translator
Translated(s) ==
    {k \in DOMAIN events[s] :
         /\ events[s][k].kind = "error"
         /\ events[s][k].code \in FailureCodes}

\* C28: every text the translator produced is non-empty, and when the
\* backend's lookup left an empty text, whatever status the lookup reported,
\* the text is the generic numeric rendering of the code.
C28_TranslationNeverEmpty ==
    \A s \in Alive : \A k \in Translated(s) :
        /\ events[s][k].message # << >>
        /\ lookup.text = << >> =>
               events[s][k].message = GenericRendering(bustype_[s], events[s][k].code)

\* a step of Send in which the backend write of session s failed
C27_WriteFailed(s) ==
    /\ Len(sent'[s]) = Len(sent[s]) + 1
    /\ sent'[s][Len(sent'[s])].status # 0

\* C27: a backend write failure makes Send throw the name of the write call
\* followed by the translated text of the status, pushes one error event with
\* the status and that text when an error sink is registered and none
\* otherwise, and leaves the session open with its handles, its sinks and its
\* worker as they were.
C27_WriteFailureReturned ==
    [][\A s \in Sessions :
          C27_WriteFailed(s) =>
              LET status == sent'[s][Len(sent'[s])].status
                  text == StatusToString(bustype_[s], status)
              IN  /\ result' = IF bustype_[s] = "busmust"
                               THEN "BM_WriteCanMessage failed"
                               ELSE "CAN_Write failed"
                  /\ sent'[s][Len(sent'[s])].thrown = <<result', ": ">> \o text
                  /\ text = LookupText.text
                  /\ events'[s] =
                         IF tsfn_error_[s] # 0
                         THEN Append(events[s], [kind |-> "error", code |-> status,
                                                 message |-> text])
                         ELSE events[s]
                  /\ is_open_'[s]
                  /\ UNCHANGED <<life, sessVars, sinkVars, recv_running_, wpc,
                                 bk_open, framesub>>]_vars

\* a send that threw on a failed pcan write while the worker was waiting,
\* the error sink called and the session still open
C27_Witness ==
    \E s \in Alive :
        /\ is_open_[s]
        /\ bustype_[s] = "pcan"
        /\ result = "CAN_Write failed"
        /\ Len(sent[s]) = 1
        /\ sent[s][1].status \in FailureCodes
        /\ tsfn_error_[s] # 0
        /\ recv_running_[s]
        /\ wpc[s] = "wait"
        /\ \E k \in DOMAIN events[s] :
               events[s][k] = [kind |-> "error", code |-> sent[s][1].status,
                               message |-> LookupText.text]

\* a step in which a backend read of session s returned a failure status
C25_ReadFailed(s) ==
    /\ wpc[s] = "read"
    /\ rx_read'[s] = rx_read[s]
    /\ faults' = faults + 1

\* C25: a read that fails with a status other than queue-empty pushes one
\* error event with the status and its text to the registered error sink,
\* ends the drain, and leaves the run flag, the open flag, the handles and
\* the frames waiting in the backend as they were, so the next cycle reads
\* them.
C25_ReadFailureNotFatal ==
    [][\A s \in Sessions :
          C25_ReadFailed(s) =>
              /\ wpc'[s] = "loop"
              /\ UNCHANGED <<life, sessVars, sinkVars, recv_running_, rx, bk_open,
                             dropped>>
              /\ tsfn_error_[s] # 0 =>
                     /\ Len(events'[s]) = Len(events[s]) + 1
                     /\ events[s] = Take(events'[s], Len(events[s]))
                     /\ LET e == events'[s][Len(events'[s])]
                        IN  /\ e.kind = "error"
                            /\ e.code \in FailureCodes
                            /\ e.message = StatusToString(bustype_[s], e.code)]_vars

\* a frame delivered to the frame sink after the error event of a failed
\* read, worker running and session open
C25_Witness ==
    \E s \in Alive :
        /\ is_open_[s]
        /\ recv_running_[s]
        /\ faults = 1
        /\ dropped[s] = 0
        /\ sent[s] = << >>
        /\ \E k, j \in DOMAIN events[s] :
               /\ k < j
               /\ events[s][k].kind = "error"
               /\ events[s][k].code \in FailureCodes
               /\ events[s][j].kind = "frame"

\* a step in which a backend read of session s found the queue empty
C26_ReadEmpty(s) ==
    /\ wpc[s] = "read"
    /\ wpc'[s] # "read"
    /\ rx[s] = << >>
    /\ faults' = faults

\* C26: no error event carries the queue-empty status of the session's
\* backend, and a read that finds the queue empty only ends the drain: it
\* calls no sink and changes nothing of the session.
C26_QueueEmptyFiltered ==
    /\ [](\A s \in Alive : \A k \in DOMAIN events[s] :
              events[s][k].kind = "error" =>
                  events[s][k].code # QueueEmptyStatus(bustype_[s]))
    /\ [][\A s \in Sessions :
             C26_ReadEmpty(s) =>
                 /\ wpc'[s] = "loop"
                 /\ UNCHANGED <<life, sessVars, sinkVars, recv_running_, events,
                                rx, rx_read, dropped>>]_vars

\* the worker of a session with an error sink is back at the top of its loop
\* after a read that found the queue empty, no event delivered
C26_Witness ==
    \E s \in Alive :
        /\ is_open_[s]
        /\ recv_running_[s]
        /\ tsfn_error_[s] # 0
        /\ wpc[s] = "loop"
        /\ polled[s]
        /\ pcan_event_fd_[s] < 0
        /\ bustype_[s] = "pcan"
        /\ arrived = 0
        /\ faults = 0
        /\ events[s] = << >>

\* a step in which the worker of session s observed a failure: its wait or
\* poll failed, its read failed, or the frame sink could not be called
C24_WorkerFailure(s) ==
    /\ wpc[s] \in {"wait", "read"}
    /\ wpc'[s] # wpc[s]
    /\ faults' = faults + 1

\* a step of Send in which the backend write of session s failed
C24_SendFailure(s) ==
    /\ Len(sent'[s]) = Len(sent[s]) + 1
    /\ sent'[s][Len(sent'[s])].status # 0

\* C24: every failure observed by Send is returned to its caller, and every
\* failure observed by the worker puts an event on the error or the close
\* sink, whether or not an error sink is registered.
C24_NoErrorDropped ==
    [][\A s \in Sessions :
          /\ C24_SendFailure(s) => result' # "ok"
          /\ C24_WorkerFailure(s) =>
                 /\ Len(events'[s]) = Len(events[s]) + 1
                 /\ events'[s][Len(events'[s])].kind \in {"error", "close"}]_vars

\* a step in which the worker of session s met a failure that makes the
\* session unusable: its wait failed, or the frame sink could not be called
C23_ResourceFailure(s) ==
    /\ faults' = faults + 1
    /\ \/ wpc[s] = "wait" /\ wpc'[s] = "loop"
       \/ wpc[s] = "read" /\ rx_read'[s] # rx_read[s]

\* C23: a failed wait or a frame sink that cannot be called stops the
\* worker, and a worker that has stopped while no close is under way has had
\* a close event delivered to the registered close sink.
C23_StopsWithCloseEvent ==
    /\ [][\A s \in Sessions : C23_ResourceFailure(s) => ~recv_running_'[s]]_vars
    /\ [](\A s \in Alive :
              (wpc[s] = "exited" /\ caller = Idle /\ tsfn_close_[s] # 0) =>
                  \E k \in DOMAIN events[s] : events[s][k].kind = "close")

\* a step of the constructor of session s in which the backend open call
\* succeeded
C29_BackendOpened(s) ==
    /\ life[s] = "unborn"
    /\ life'[s] = "alive"
    /\ calls'[s].opened = 1

\* C29: a constructor whose backend open call succeeded leaves the session
\* open and holding the native handle, whether or not a notification handle
\* was obtained.
C29_NotificationOptional ==
    [][\A s \in Sessions :
          C29_BackendOpened(s) =>
              /\ is_open_'[s]
              /\ result' = "ok"
              /\ bustype_'[s] = "busmust" => handle_'[s] # 0
              /\ bustype_'[s] = "pcan" => pcan_handle_'[s] # PCAN_NONEBUS]_vars

\* C30: under fair scheduling a close that finds the worker active ends with
\* the session closed and the worker joined, and once the run flag is clear
\* the worker begins no backend read: the only read that can still end is
\* the one already under way.
C30_CloseTerminates ==
    /\ \A s \in Followed :
           (caller = [op |-> "close", s |-> s]) ~>
               (caller = Idle /\ ~is_open_[s] /\ wpc[s] = "none")
    /\ [][\A s \in Sessions :
             (~recv_running_[s] /\ wpc[s] # "read") => wpc'[s] # "read"]_vars

\* a close has joined a worker that had polled the backend and read nothing,
\* and has delivered the close event
C30_Witness ==
    \E s \in Alive :
        /\ caller = Idle
        /\ ~is_open_[s]
        /\ ~recv_running_[s]
        /\ calls[s].close = 1
        /\ polled[s]
        /\ rx_read[s] = << >>
        /\ wpc[s] = "none"
        /\ tsfn_message_[s] = 0
        /\ events[s] # << >>
        /\ events[s][Len(events[s])].kind = "close"

\* C31: no second worker is ever started while one is unjoined, and a worker,
\* running or ended and not yet joined, exists only while a frame sink is
\* registered.
C31_OneWorkerPerSession ==
    /\ caller.op # "terminated"
    /\ \A s \in Sessions : wpc[s] # "none" => tsfn_message_[s] # 0

\* the worker has stopped on its own and is not joined, and a further
\* subscription to frames was refused
C31_Witness ==
    \E s \in Alive :
        /\ caller = Idle
        /\ wpc[s] = "exited"
        /\ ~recv_running_[s]
        /\ is_open_[s]
        /\ dropped[s] = 1
        /\ tsfn_message_[s] # 0
        /\ result = "Already listening for messages"

\* a step of the receive worker of session s
C32_WorkerStep(s) ==
    /\ wpc[s] \in {"loop", "wait", "drain", "read"}
    /\ wpc'[s] # wpc[s]

\* C32: a step of the worker leaves the handles, the open flag, the sinks,
\* the init count and the object itself as they were and makes no backend
\* open, close, init or uninit call; of the session's fields it writes the
\* run flag only, and only to clear it.
C32_WorkerOwnsNothing ==
    [][\A s \in Sessions :
          C32_WorkerStep(s) =>
              /\ UNCHANGED <<life, sessVars, sinkVars, g_busmust_instance_count,
                             bk_open, calls, bm_log, open_args>>
              /\ recv_running_'[s] # recv_running_[s] => ~recv_running_'[s]]_vars

\* the worker has cleared its run flag after the frame sink could not be
\* called, the session still open and holding its handle and sinks
C32_Witness ==
    \E s \in Alive :
        /\ wpc[s] = "loop"
        /\ ~recv_running_[s]
        /\ dropped[s] = 1
        /\ caller = Idle
        /\ is_open_[s]
        /\ bk_open[s]
        /\ bustype_[s] = "busmust"
        /\ handle_[s] # 0
        /\ notification_handle_[s] # 0
        /\ tsfn_message_[s] # 0
        /\ calls[s].close = 0
        /\ g_busmust_instance_count = 1

\* the number of frame events delivered to the sinks of s
C33_Delivered(s) ==
    Cardinality({k \in DOMAIN events[s] : events[s][k].kind = "frame"})

\* the number of frames the backend of s has had in its receive queue
C33_Queued(s) == Len(rx_read[s]) + Len(rx[s])

\* session s is open with a frame sink and no close or destruction begun
C33_Receiving(s) ==
    /\ life[s] = "alive"
    /\ is_open_[s]
    /\ tsfn_message_[s] # 0
    /\ caller = Idle

C33_DeliveredOrStopped(s, n) ==
    \/ C33_Delivered(s) >= n
    \/ faults > 0
    \/ ~C33_Receiving(s)

C34_Up(log) ==
    Cardinality({k \in DOMAIN log : log[k] = "init"})
        > Cardinality({k \in DOMAIN log : log[k] = "uninit"})

\* C34: every BM_Enumerate of a constructor is made on an initialised
\* backend, and once no BM_Init is under way a session registered with the
\* init count has an initialised backend.
C34_InitBeforeUse ==
    /\ \A k \in DOMAIN bm_log :
           bm_log[k] = "enumerate" => C34_Up(SubSeq(bm_log, 1, k - 1))
    /\ ((\A s \in Sessions : life[s] # "initialising")
            /\ (\E s \in Sessions : busmust_registered_[s])) => C34_Up(bm_log)

\* a step that writes one of the sink slots of s that the worker reads
C35_SlotWritten(s) ==
    \/ tsfn_message_'[s] # tsfn_message_[s]
    \/ tsfn_error_'[s] # tsfn_error_[s]

\* C35: the frame sink slot and the error sink slot of a session are written
\* only while the session has no worker or its worker has ended and is being
\* joined by the same call.
C35_SlotsWrittenWithoutWorker ==
    [][\A s \in Sessions :
          C35_SlotWritten(s) => wpc[s] \in {"none", "exited"}]_vars

\* C36: while no call on a session is under way, a busmust session is open
\* exactly when it holds a handle, a notification handle and its registration
\* with the init count, a pcan session exactly when its handle is not
\* PCAN_NONEBUS, and a session that is not open holds none of them.
C36_OpenFlagAgrees ==
    caller = Idle =>
        \A s \in Alive :
            /\ bustype_[s] = "busmust" =>
                   /\ is_open_[s] <=> (/\ handle_[s] # 0
                                       /\ notification_handle_[s] # 0
                                       /\ busmust_registered_[s])
                   /\ ~is_open_[s] => (/\ handle_[s] = 0
                                       /\ notification_handle_[s] = 0
                                       /\ ~busmust_registered_[s])
            /\ bustype_[s] = "pcan" =>
                   /\ is_open_[s] <=> pcan_handle_[s] # PCAN_NONEBUS
                   /\ ~is_open_[s] => pcan_event_fd_[s] < 0
            /\ bustype_[s] \notin {"busmust", "pcan"} =>
                   /\ ~is_open_[s]
                   /\ handle_[s] = 0
                   /\ pcan_handle_[s] = PCAN_NONEBUS

\* a constructor that had opened the channel and then failed has left a
\* session that is not open and holds nothing
C36_Witness ==
    \E s \in Alive :
        /\ caller = Idle
        /\ bustype_[s] = "busmust"
        /\ calls[s].opened = 1
        /\ result = "BM_GetNotification failed"
        /\ ~is_open_[s]
        /\ handle_[s] = 0
        /\ ~busmust_registered_[s]

\* session s is the object a failed constructor left, or one that was closed
C37_Residual(s) ==
    /\ life[s] = "alive"
    /\ ~is_open_[s]

\* C37: no step changes, for an object that is not open, the backend calls
\* made for it, the calls to BM_Init and BM_UnInit, the init count or the
\* frames written; the object stays not open and never has a worker.
C37_ResidualObjectInert ==
    /\ [](\A s \in Sessions : C37_Residual(s) => (wpc[s] = "none" /\ ~recv_running_[s]))
    /\ [][\A s \in Followed :
             C37_Residual(s) =>
                 /\ calls'[s] = calls[s]
                 /\ bm_log' = bm_log
                 /\ g_busmust_instance_count' = g_busmust_instance_count
                 /\ writes'[s] = writes[s]
                 /\ bk_open'[s] = bk_open[s]
                 /\ ~is_open_'[s]
                 /\ wpc'[s] = "none"]_vars

\* the object of a constructor that failed before any backend call has had
\* a frame sink registered and a send refused, with no worker and no call
C37_Witness ==
    \E s \in Alive :
        /\ caller = Idle
        /\ ~is_open_[s]
        /\ calls[s] = NoCalls
        /\ bustype_[s] = "busmust"
        /\ channel_[s] < 0
        /\ tsfn_message_[s] # 0
        /\ wpc[s] = "none"
        /\ result = "CANBus not open"
        /\ bm_log = << >>
        /\ g_busmust_instance_count = 0

\* a step that puts a close event on the close sink of s
C38_CloseEmitted(s) ==
    /\ Len(events'[s]) = Len(events[s]) + 1
    /\ events'[s][Len(events'[s])].kind = "close"

====
